---- MODULE Spec2Model ----
(***************************************************************************)
(* Multi-currency ledger of the open-runtime-module-library:               *)
(*   tokens/src/lib.rs      the multi-currency engine (Accounts, Locks,    *)
(*                          TotalIssuance) and its dispatchables           *)
(*   currencies/src/lib.rs  the facade that routes a call to the native    *)
(*                          provider or to the engine and emits events     *)
(*                                                                         *)
(* Every operation of the source is an operator from a ledger record `s`   *)
(* to the ledger after the call (with the call's result), written in the   *)
(* order of the source's statements; an action applies one operation to    *)
(* the variables.  Balance is an unsigned integer 0..MaxBalance; the       *)
(* unchecked operators of the source (+, -, +=, -=) wrap modulo            *)
(* MaxBalance + 1 and raise the flag `wrapped`.                            *)
(***************************************************************************)
EXTENDS Integers, Sequences, FiniteSets, TLC

VARIABLES
    ExistentialDeposit, \* Trait::ExistentialDeposit, fixed when the runtime is built
    Accounts,       \* tokens storage: cid -> account -> AccountData
    Locks,          \* tokens storage: stored keys <<cid, account>> -> Vec<BalanceLock>
    TotalIssuance,  \* tokens storage: cid -> Balance
    refs,           \* frame_system account reference counters
    native,         \* free balances held by the native currency provider
    dust,           \* amounts handed to DustRemoval by the call that is returning
    events,         \* events deposited by the call that is returning
    wrapped,        \* the call that is returning wrapped an unchecked + or -
    last,           \* the call that is returning: operation, arguments, result
    scheduler       \* schedule-update: block number, NextId, delayed dispatches, events

vars == <<ExistentialDeposit, Accounts, Locks, TotalIssuance, refs, native, dust, events,
          wrapped, last, scheduler>>

---------------------------------------------------------------------------
(* Types and bounds *)

MaxBalance == 4

Balance == 0..MaxBalance
Modulus == MaxBalance + 1
\* Amount is a signed integer type one value wider than Balance on each side,
\* so that TryInto<Balance> can fail
Amount == (0 - Modulus)..Modulus

NativeCurrencyId == "NAT"
CurrencyId == {"NAT", "X", "Y"}
AccountId == {"alice", "bob", "carol"}
LockIdentifier == {1, 2}
BalanceStatus == {"Free", "Reserved"}

Min(a, b) == IF a <= b THEN a ELSE b
Max(a, b) == IF a >= b THEN a ELSE b

\* unchecked arithmetic on Balance wraps
WrappingAdd(a, b) == (a + b) % Modulus
WrappingSub(a, b) == (a - b) % Modulus
AddWraps(a, b) == a + b > MaxBalance
SubWraps(a, b) == b > a
SaturatingAdd(a, b) == Min(a + b, MaxBalance)
SaturatingSub(a, b) == IF b > a THEN 0 ELSE a - b

DefaultAccountData == [free |-> 0, reserved |-> 0, frozen |-> 0]

total(account) == SaturatingAdd(account.free, account.reserved)

\* the ledger as one record: what a call reads and what it leaves behind
Ledger ==
    [Accounts |-> Accounts, Locks |-> Locks, TotalIssuance |-> TotalIssuance,
     refs |-> refs, native |-> native, dust |-> dust, events |-> events,
     wrapped |-> wrapped]

\* the ledger as a call finds it: the per-call logs are empty
AtCall == [Ledger EXCEPT !.dust = <<>>, !.events = <<>>, !.wrapped = FALSE]

Ok(s) == [s |-> s, res |-> "Ok", ret |-> 0]
Err(s, e) == [s |-> s, res |-> e, ret |-> 0]
Ret(s, v) == [s |-> s, res |-> "Ok", ret |-> v]

Note(s, wraps) == [s EXCEPT !.wrapped = @ \/ wraps]

---------------------------------------------------------------------------
(* Store accessors (decl_storage getters) *)

accounts(s, cid, who) == s.Accounts[cid][who]
total_issuance(s, cid) == s.TotalIssuance[cid]
contains_key(s, cid, who) == <<cid, who>> \in DOMAIN s.Locks
locks(s, cid, who) == IF contains_key(s, cid, who) THEN s.Locks[<<cid, who>>] ELSE <<>>
free_balance(s, cid, who) == accounts(s, cid, who).free
reserved_balance(s, cid, who) == accounts(s, cid, who).reserved
total_balance(s, cid, who) == total(accounts(s, cid, who))

\* <TotalIssuance<T>>::mutate(currency_id, |v| *v -= x)
issuance_sub(s, cid, x) ==
    [s EXCEPT !.TotalIssuance[cid] = WrappingSub(@, x),
              !.wrapped = @ \/ SubWraps(s.TotalIssuance[cid], x)]

\* <TotalIssuance<T>>::mutate(currency_id, |v| *v += x)
issuance_add(s, cid, x) ==
    [s EXCEPT !.TotalIssuance[cid] = WrappingAdd(@, x),
              !.wrapped = @ \/ AddWraps(s.TotalIssuance[cid], x)]

inc_ref(s, who) == [s EXCEPT !.refs[who] = @ + 1]
dec_ref(s, who) == [s EXCEPT !.refs[who] = IF @ = 0 THEN 0 ELSE @ - 1]

---------------------------------------------------------------------------
(* impl Module: internal writers *)

\* set_free_balance that hands the dust over without burning it from the issuance
set_free_balance_keeps_issuance(s, cid, who, balance) ==
    IF balance < ExistentialDeposit
    THEN LET s1 == [s EXCEPT !.Accounts[cid][who].free = 0]
         IN [s1 EXCEPT !.dust = Append(@, balance)]
    ELSE [s EXCEPT !.Accounts[cid][who].free = balance]

\* set_free_balance that also removes a balance equal to the existential deposit
set_free_balance_removes_deposit(s, cid, who, balance) ==
    IF balance <= ExistentialDeposit
    THEN LET s1 == [s EXCEPT !.Accounts[cid][who].free = 0]
             s2 == [s1 EXCEPT !.dust = Append(@, balance)]
         IN issuance_sub(s2, cid, balance)
    ELSE [s EXCEPT !.Accounts[cid][who].free = balance]

\* set_free_balance that writes the balance whatever its size
set_free_balance_no_rule(s, cid, who, balance) ==
    [s EXCEPT !.Accounts[cid][who].free = balance]

\* set_free_balance that drops the account's locks with the balance it removes
set_free_balance_drops_locks(s, cid, who, balance) ==
    IF balance < ExistentialDeposit
    THEN LET s1 == [s EXCEPT !.Accounts[cid][who].free = 0,
                             !.Accounts[cid][who].frozen = 0]
             s2 == [s1 EXCEPT !.dust = Append(@, balance)]
             s3 == issuance_sub(s2, cid, balance)
         IN [s3 EXCEPT !.Locks = [k \in (DOMAIN s.Locks) \ {<<cid, who>>} |-> s.Locks[k]]]
    ELSE [s EXCEPT !.Accounts[cid][who].free = balance]

set_free_balance(s, cid, who, balance) ==
    IF balance < ExistentialDeposit
    THEN LET s1 == [s EXCEPT !.Accounts[cid][who].free = 0]
             s2 == [s1 EXCEPT !.dust = Append(@, balance)]
         IN issuance_sub(s2, cid, balance)
    ELSE [s EXCEPT !.Accounts[cid][who].free = balance]

set_reserved_balance(s, cid, who, balance) ==
    [s EXCEPT !.Accounts[cid][who].reserved = balance]

\* the fold of update_locks: frozen starts at zero and takes the max of each lock
RECURSIVE frozen_fold(_, _, _)
frozen_fold(frozen, lks, i) ==
    IF i > Len(lks) THEN frozen
    ELSE frozen_fold(Max(frozen, lks[i].amount), lks, i + 1)

locks_insert(s, cid, who, lks) ==
    [s EXCEPT !.Locks = [k \in (DOMAIN s.Locks) \cup {<<cid, who>>} |->
                            IF k = <<cid, who>> THEN lks ELSE s.Locks[k]]]

locks_remove(s, cid, who) ==
    [s EXCEPT !.Locks = [k \in (DOMAIN s.Locks) \ {<<cid, who>>} |-> s.Locks[k]]]

\* update_locks that takes a reference at every write of a non-empty list
update_locks_counts_writes(s, cid, who, lks) ==
    LET s1 == [s EXCEPT !.Accounts[cid][who].frozen = frozen_fold(0, lks, 1)]
        existed == contains_key(s1, cid, who)
    IN IF lks = <<>>
       THEN LET s2 == locks_remove(s1, cid, who)
            IN IF existed THEN dec_ref(s2, who) ELSE s2
       ELSE inc_ref(locks_insert(s1, cid, who, lks), who)

\* update_locks that takes the last lock's amount for frozen instead of the max
update_locks_last_amount(s, cid, who, lks) ==
    LET s1 == [s EXCEPT !.Accounts[cid][who].frozen =
                            IF lks = <<>> THEN 0 ELSE lks[Len(lks)].amount]
        existed == contains_key(s1, cid, who)
    IN IF lks = <<>>
       THEN LET s2 == locks_remove(s1, cid, who)
            IN IF existed THEN dec_ref(s2, who) ELSE s2
       ELSE LET s2 == locks_insert(s1, cid, who, lks)
            IN IF ~existed THEN inc_ref(s2, who) ELSE s2

\* update_locks that writes frozen on the account under every currency
update_locks_every_currency(s, cid, who, lks) ==
    LET s1 == [s EXCEPT !.Accounts = [c \in DOMAIN @ |->
                            [@[c] EXCEPT ![who].frozen = frozen_fold(0, lks, 1)]]]
        existed == contains_key(s1, cid, who)
    IN IF lks = <<>>
       THEN LET s2 == locks_remove(s1, cid, who)
            IN IF existed THEN dec_ref(s2, who) ELSE s2
       ELSE LET s2 == locks_insert(s1, cid, who, lks)
            IN IF ~existed THEN inc_ref(s2, who) ELSE s2

update_locks(s, cid, who, lks) ==
    LET s1 == [s EXCEPT !.Accounts[cid][who].frozen = frozen_fold(0, lks, 1)]
        existed == contains_key(s1, cid, who)
    IN IF lks = <<>>
       THEN LET s2 == locks_remove(s1, cid, who)
            IN IF existed THEN dec_ref(s2, who) ELSE s2
       ELSE LET s2 == locks_insert(s1, cid, who, lks)
            IN IF ~existed THEN inc_ref(s2, who) ELSE s2

---------------------------------------------------------------------------
(* impl MultiCurrency for Module (tokens) *)

\* ensure_can_withdraw that forgets the frozen floor
ensure_can_withdraw_data_no_floor(account, amount) ==
    IF amount = 0 THEN "Ok"
    ELSE IF account.free < amount THEN "BalanceTooLow"
    ELSE "Ok"

\* ensure_can_withdraw that asks for new_balance > frozen
ensure_can_withdraw_data_strict(account, amount) ==
    IF amount = 0 THEN "Ok"
    ELSE IF account.free < amount THEN "BalanceTooLow"
    ELSE IF ~(account.free - amount > account.frozen) THEN "LiquidityRestrictions"
    ELSE "Ok"

ensure_can_withdraw_data(account, amount) ==
    IF amount = 0 THEN "Ok"
    ELSE IF account.free < amount THEN "BalanceTooLow"
    ELSE IF ~(account.free - amount >= account.frozen) THEN "LiquidityRestrictions"
    ELSE "Ok"

ensure_can_withdraw(s, cid, who, amount) ==
    ensure_can_withdraw_data(accounts(s, cid, who), amount)

\* transfer that returns early for a zero amount only, not for from == to
transfer_no_self_branch(s, cid, from, to, amount) ==
    IF amount = 0 THEN Ok(s)
    ELSE LET chk == ensure_can_withdraw(s, cid, from, amount)
         IN IF chk # "Ok" THEN Err(s, chk)
            ELSE IF free_balance(s, cid, to) + amount < ExistentialDeposit
            THEN Err(s, "ExistentialDeposit")
            ELSE Ok(s)

\* transfer that writes the source before it checks the destination
transfer_debits_first(s, cid, from, to, amount) ==
    IF amount = 0 \/ from = to THEN Ok(s)
    ELSE LET chk == ensure_can_withdraw(s, cid, from, amount)
         IN IF chk # "Ok" THEN Err(s, chk)
            ELSE LET from_balance == free_balance(s, cid, from)
                     to_balance == free_balance(s, cid, to)
                     s1 == set_free_balance(s, cid, from,
                                            WrappingSub(from_balance, amount))
                 IN IF ~(WrappingAdd(to_balance, amount) >= ExistentialDeposit)
                    THEN Err(s1, "ExistentialDeposit")
                    ELSE Ok(set_free_balance(s1, cid, to,
                                             WrappingAdd(to_balance, amount)))

\* transfer that writes the destination's old balance back
transfer_stale_to(s, cid, from, to, amount) ==
    IF amount = 0 \/ from = to THEN Ok(s)
    ELSE LET chk == ensure_can_withdraw(s, cid, from, amount)
         IN IF chk # "Ok" THEN Err(s, chk)
            ELSE LET from_balance == free_balance(s, cid, from)
                     to_balance == free_balance(s, cid, to)
                 IN IF ~(WrappingAdd(to_balance, amount) >= ExistentialDeposit)
                    THEN Err(s, "ExistentialDeposit")
                    ELSE LET s1 == set_free_balance(s, cid, from,
                                                    WrappingSub(from_balance, amount))
                         IN Ok(set_free_balance(s1, cid, to, to_balance))

\* transfer that tests the destination's total balance against the deposit
transfer_checks_total(s, cid, from, to, amount) ==
    IF amount = 0 \/ from = to THEN Ok(s)
    ELSE LET chk == ensure_can_withdraw(s, cid, from, amount)
         IN IF chk # "Ok" THEN Err(s, chk)
            ELSE LET from_balance == free_balance(s, cid, from)
                     to_balance == free_balance(s, cid, to)
                 IN IF ~(total_balance(s, cid, to) + amount >= ExistentialDeposit)
                    THEN Err(s, "ExistentialDeposit")
                    ELSE LET s1 == set_free_balance(s, cid, from,
                                                    WrappingSub(from_balance, amount))
                         IN Ok(set_free_balance(s1, cid, to,
                                                WrappingAdd(to_balance, amount)))

transfer(s, cid, from, to, amount) ==
    IF amount = 0 \/ from = to THEN Ok(s)
    ELSE LET chk == ensure_can_withdraw(s, cid, from, amount)
         IN IF chk # "Ok" THEN Err(s, chk)
            ELSE LET from_balance == free_balance(s, cid, from)
                     to_balance == free_balance(s, cid, to)
                     s0 == Note(s, AddWraps(to_balance, amount))
                 IN IF ~(WrappingAdd(to_balance, amount) >= ExistentialDeposit)
                    THEN Err(s0, "ExistentialDeposit")
                    ELSE IF from # to
                         THEN LET s1 == set_free_balance(
                                            Note(s0, SubWraps(from_balance, amount)),
                                            cid, from, WrappingSub(from_balance, amount))
                                  s2 == set_free_balance(s1, cid, to,
                                                         WrappingAdd(to_balance, amount))
                              IN Ok(s2)
                         ELSE Ok(s0)

\* deposit that applies the existential-deposit rule before the overflow check
deposit_admits_first(s, cid, who, amount) ==
    IF amount = 0 THEN Ok(s)
    ELSE LET balance == free_balance(s, cid, who)
         IN IF balance = 0 /\ amount < ExistentialDeposit THEN Ok(s)
            ELSE IF AddWraps(total_issuance(s, cid), amount)
                 THEN Err(s, "TotalIssuanceOverflow")
                 ELSE LET s1 == issuance_add(s, cid, amount)
                      IN Ok(set_free_balance(s1, cid, who, WrappingAdd(balance, amount)))

\* deposit that mints a deposit below the existential deposit into an empty account
deposit_mints_dust(s, cid, who, amount) ==
    IF amount = 0 THEN Ok(s)
    ELSE IF AddWraps(total_issuance(s, cid), amount) THEN Err(s, "TotalIssuanceOverflow")
    ELSE LET balance == free_balance(s, cid, who)
             s1 == issuance_add(s, cid, amount)
         IN Ok(set_free_balance(s1, cid, who, WrappingAdd(balance, amount)))

\* deposit without the checked_add on the total issuance
deposit_unchecked_issuance(s, cid, who, amount) ==
    IF amount = 0 THEN Ok(s)
    ELSE LET balance == free_balance(s, cid, who)
         IN IF balance = 0 /\ amount < ExistentialDeposit THEN Ok(s)
            ELSE LET s1 == issuance_add(s, cid, amount)
                     s2 == set_free_balance(Note(s1, AddWraps(balance, amount)),
                                            cid, who, WrappingAdd(balance, amount))
                 IN Ok(s2)

deposit(s, cid, who, amount) ==
    IF amount = 0 THEN Ok(s)
    ELSE IF AddWraps(total_issuance(s, cid), amount) THEN Err(s, "TotalIssuanceOverflow")
    ELSE LET balance == free_balance(s, cid, who)
         IN IF balance = 0 /\ amount < ExistentialDeposit THEN Ok(s)
            ELSE LET s1 == issuance_add(s, cid, amount)
                     s2 == set_free_balance(Note(s1, AddWraps(balance, amount)),
                                            cid, who, WrappingAdd(balance, amount))
                 IN Ok(s2)

\* withdraw that burns the amount but not from the issuance first
withdraw_keeps_issuance(s, cid, who, amount) ==
    IF amount = 0 THEN Ok(s)
    ELSE LET chk == ensure_can_withdraw(s, cid, who, amount)
         IN IF chk # "Ok" THEN Err(s, chk)
            ELSE LET free == free_balance(s, cid, who)
                 IN Ok(set_free_balance(s, cid, who, WrappingSub(free, amount)))

withdraw(s, cid, who, amount) ==
    IF amount = 0 THEN Ok(s)
    ELSE LET chk == ensure_can_withdraw(s, cid, who, amount)
         IN IF chk # "Ok" THEN Err(s, chk)
            ELSE LET s1 == issuance_sub(s, cid, amount)
                     free == free_balance(s1, cid, who)
                     s2 == set_free_balance(Note(s1, SubWraps(free, amount)),
                                            cid, who, WrappingSub(free, amount))
                 IN Ok(s2)

\* can_slash that counts the reserved balance as slashable
can_slash_counts_reserved(s, cid, who, value) ==
    IF value = 0 THEN TRUE ELSE total_balance(s, cid, who) >= value

can_slash(s, cid, who, value) ==
    IF value = 0 THEN TRUE ELSE free_balance(s, cid, who) >= value

\* slash that burns the whole amount from the issuance, leftover included
\* slash that takes from the reserved balance before the free balance
slash_reserved_first(s, cid, who, amount) ==
    IF amount = 0 THEN Ret(s, amount)
    ELSE LET account == accounts(s, cid, who)
             reserved_slashed_amount == Min(account.reserved, amount)
             remaining_slash0 == amount - reserved_slashed_amount
             s1 == set_reserved_balance(s, cid, who,
                                        account.reserved - reserved_slashed_amount)
             free_slashed_amount == Min(account.free, remaining_slash0)
             s2 == IF free_slashed_amount # 0
                   THEN set_free_balance(s1, cid, who, account.free - free_slashed_amount)
                   ELSE s1
             remaining_slash == remaining_slash0 - free_slashed_amount
             s3 == issuance_sub(s2, cid, amount - remaining_slash)
         IN Ret(s3, remaining_slash)

slash_burns_amount(s, cid, who, amount) ==
    IF amount = 0 THEN Ret(s, amount)
    ELSE LET account == accounts(s, cid, who)
             free_slashed_amount == Min(account.free, amount)
             remaining_slash0 == amount - free_slashed_amount
             s1 == IF free_slashed_amount # 0
                   THEN set_free_balance(s, cid, who, account.free - free_slashed_amount)
                   ELSE s
             reserved_slashed_amount == Min(account.reserved, remaining_slash0)
             s2 == IF remaining_slash0 # 0
                   THEN set_reserved_balance(s1, cid, who,
                                             account.reserved - reserved_slashed_amount)
                   ELSE s1
             s3 == issuance_sub(s2, cid, amount)
         IN Ret(s3, remaining_slash0 - reserved_slashed_amount)

slash(s, cid, who, amount) ==
    IF amount = 0 THEN Ret(s, amount)
    ELSE LET account == accounts(s, cid, who)
             free_slashed_amount == Min(account.free, amount)
             remaining_slash0 == amount - free_slashed_amount
             s1 == IF free_slashed_amount # 0
                   THEN set_free_balance(s, cid, who, account.free - free_slashed_amount)
                   ELSE s
             reserved_slashed_amount == Min(account.reserved, remaining_slash0)
             remaining_slash == IF remaining_slash0 # 0
                                THEN remaining_slash0 - reserved_slashed_amount
                                ELSE remaining_slash0
             s2 == IF remaining_slash0 # 0
                   THEN set_reserved_balance(s1, cid, who,
                                             account.reserved - reserved_slashed_amount)
                   ELSE s1
             s3 == issuance_sub(s2, cid, amount - remaining_slash)
         IN Ret(s3, remaining_slash)

---------------------------------------------------------------------------
(* impl MultiCurrencyExtended for Module (tokens) *)

\* TryInto::<Balance>::try_into(by_amount.abs())
abs(x) == IF x < 0 THEN 0 - x ELSE x
try_into_balance_ok(x) == x \in Balance

\* update_balance that deposits whatever the sign of by_amount
update_balance_ignores_sign(s, cid, who, by_amount) ==
    IF by_amount = 0 THEN Ok(s)
    ELSE IF ~try_into_balance_ok(abs(by_amount)) THEN Err(s, "AmountIntoBalanceFailed")
    ELSE deposit(s, cid, who, abs(by_amount))

update_balance(s, cid, who, by_amount) ==
    IF by_amount = 0 THEN Ok(s)
    ELSE IF ~try_into_balance_ok(abs(by_amount)) THEN Err(s, "AmountIntoBalanceFailed")
    ELSE IF by_amount > 0 THEN deposit(s, cid, who, abs(by_amount))
    ELSE withdraw(s, cid, who, abs(by_amount))

---------------------------------------------------------------------------
(* impl MultiLockableCurrency for Module (tokens) *)

\* the filter_map of set_lock from position i on: the first entry with the id
\* takes new_lock (new_lock.take()), a later one finds None and is dropped
RECURSIVE set_lock_filter_map(_, _, _, _)
set_lock_filter_map(lks, new_lock, taken, i) ==
    IF i > Len(lks) THEN <<>>
    ELSE IF lks[i].id = new_lock.id
         THEN (IF taken THEN <<>> ELSE <<new_lock>>)
                  \o set_lock_filter_map(lks, new_lock, TRUE, i + 1)
         ELSE <<lks[i]>> \o set_lock_filter_map(lks, new_lock, taken, i + 1)

\* the filter_map of extend_lock: the first entry with the id becomes the max
RECURSIVE extend_lock_filter_map(_, _, _, _)
extend_lock_filter_map(lks, new_lock, taken, i) ==
    IF i > Len(lks) THEN <<>>
    ELSE IF lks[i].id = new_lock.id
         THEN (IF taken THEN <<>>
               ELSE <<[id |-> lks[i].id, amount |-> Max(lks[i].amount, new_lock.amount)]>>)
                  \o extend_lock_filter_map(lks, new_lock, TRUE, i + 1)
         ELSE <<lks[i]>> \o extend_lock_filter_map(lks, new_lock, taken, i + 1)

\* whether new_lock is still Some after the filter_map
new_lock_left(lks, lock_id) == \A i \in 1..Len(lks) : lks[i].id # lock_id

\* set_lock that never lowers an existing lock
set_lock_keeps_larger(s, lock_id, cid, who, amount) ==
    IF amount = 0 THEN s
    ELSE LET new_lock == [id |-> lock_id, amount |-> amount]
             old == locks(s, cid, who)
             kept == extend_lock_filter_map(old, new_lock, FALSE, 1)
             lks == IF new_lock_left(old, lock_id) THEN Append(kept, new_lock) ELSE kept
         IN update_locks(s, cid, who, lks)

set_lock(s, lock_id, cid, who, amount) ==
    IF amount = 0 THEN s
    ELSE LET new_lock == [id |-> lock_id, amount |-> amount]
             old == locks(s, cid, who)
             kept == set_lock_filter_map(old, new_lock, FALSE, 1)
             lks == IF new_lock_left(old, lock_id) THEN Append(kept, new_lock) ELSE kept
         IN update_locks(s, cid, who, lks)

extend_lock(s, lock_id, cid, who, amount) ==
    IF amount = 0 THEN s
    ELSE LET new_lock == [id |-> lock_id, amount |-> amount]
             old == locks(s, cid, who)
             kept == extend_lock_filter_map(old, new_lock, FALSE, 1)
             lks == IF new_lock_left(old, lock_id) THEN Append(kept, new_lock) ELSE kept
         IN update_locks(s, cid, who, lks)

\* locks.retain(|lock| lock.id != lock_id)
RECURSIVE retain(_, _, _)
retain(lks, lock_id, i) ==
    IF i > Len(lks) THEN <<>>
    ELSE (IF lks[i].id # lock_id THEN <<lks[i]>> ELSE <<>>) \o retain(lks, lock_id, i + 1)

remove_lock(s, lock_id, cid, who) ==
    update_locks(s, cid, who, retain(locks(s, cid, who), lock_id, 1))

---------------------------------------------------------------------------
(* impl MultiReservableCurrency for Module (tokens) *)

can_reserve(s, cid, who, value) ==
    IF value = 0 THEN TRUE ELSE ensure_can_withdraw(s, cid, who, value) = "Ok"

\* slash_reserved that leaves the burned amount in the issuance
slash_reserved_keeps_issuance(s, cid, who, value) ==
    IF value = 0 THEN Ret(s, 0)
    ELSE LET reserved == reserved_balance(s, cid, who)
             actual == Min(reserved, value)
         IN Ret(set_reserved_balance(s, cid, who, reserved - actual), value - actual)

slash_reserved(s, cid, who, value) ==
    IF value = 0 THEN Ret(s, 0)
    ELSE LET reserved == reserved_balance(s, cid, who)
             actual == Min(reserved, value)
             s1 == set_reserved_balance(s, cid, who, reserved - actual)
             s2 == issuance_sub(s1, cid, actual)
         IN Ret(s2, value - actual)

\* reserve that checks only that the free balance covers the value, not the locks
reserve_ignores_locks(s, cid, who, value) ==
    IF value = 0 THEN Ok(s)
    ELSE LET account == accounts(s, cid, who)
         IN IF account.free < value THEN Err(s, "BalanceTooLow")
            ELSE LET s1 == set_free_balance(s, cid, who, account.free - value)
                     s2 == set_reserved_balance(
                               Note(s1, AddWraps(account.reserved, value)),
                               cid, who, WrappingAdd(account.reserved, value))
                 IN Ok(s2)

reserve(s, cid, who, value) ==
    IF value = 0 THEN Ok(s)
    ELSE LET chk == ensure_can_withdraw(s, cid, who, value)
         IN IF chk # "Ok" THEN Err(s, chk)
            ELSE LET account == accounts(s, cid, who)
                     s1 == set_free_balance(Note(s, SubWraps(account.free, value)),
                                            cid, who, WrappingSub(account.free, value))
                     s2 == set_reserved_balance(
                               Note(s1, AddWraps(account.reserved, value)),
                               cid, who, WrappingAdd(account.reserved, value))
                 IN Ok(s2)

\* unreserve that releases the reserved amount without crediting the free balance
\* unreserve that moves the whole value, whatever the reserved balance holds
unreserve_whole_value(s, cid, who, value) ==
    IF value = 0 THEN Ret(s, 0)
    ELSE LET account == accounts(s, cid, who)
             s1 == set_reserved_balance(s, cid, who, WrappingSub(account.reserved, value))
             s2 == set_free_balance(s1, cid, who, WrappingAdd(account.free, value))
         IN Ret(s2, 0)

unreserve_drops(s, cid, who, value) ==
    IF value = 0 THEN Ret(s, 0)
    ELSE LET account == accounts(s, cid, who)
             actual == Min(account.reserved, value)
         IN Ret(set_reserved_balance(s, cid, who, account.reserved - actual),
                value - actual)

unreserve(s, cid, who, value) ==
    IF value = 0 THEN Ret(s, 0)
    ELSE LET account == accounts(s, cid, who)
             actual == Min(account.reserved, value)
             s1 == set_reserved_balance(s, cid, who, account.reserved - actual)
             s2 == set_free_balance(Note(s1, AddWraps(account.free, actual)),
                                    cid, who, WrappingAdd(account.free, actual))
         IN Ret(s2, value - actual)

\* repatriate_reserved that credits the beneficiary and leaves the slashed
\* account's reserved balance as it was
\* repatriate_reserved without the branch for slashed == beneficiary
repatriate_reserved_no_self_branch(s, cid, slashed, beneficiary, value, status) ==
    IF value = 0 THEN Ret(s, 0)
    ELSE LET from_account == accounts(s, cid, slashed)
             to_account == accounts(s, cid, beneficiary)
             actual == Min(from_account.reserved, value)
             s1 == IF status = "Free"
                   THEN set_free_balance(s, cid, beneficiary,
                                         WrappingAdd(to_account.free, actual))
                   ELSE set_reserved_balance(s, cid, beneficiary,
                                             WrappingAdd(to_account.reserved, actual))
             s2 == set_reserved_balance(s1, cid, slashed, from_account.reserved - actual)
         IN Ret(s2, value - actual)

repatriate_reserved_keeps_source(s, cid, slashed, beneficiary, value, status) ==
    IF value = 0 THEN Ret(s, 0)
    ELSE IF slashed = beneficiary
    THEN (IF status = "Free" THEN unreserve(s, cid, slashed, value)
          ELSE Ret(s, SaturatingSub(value, reserved_balance(s, cid, slashed))))
    ELSE LET from_account == accounts(s, cid, slashed)
             to_account == accounts(s, cid, beneficiary)
             actual == Min(from_account.reserved, value)
             s1 == IF status = "Free"
                   THEN set_free_balance(s, cid, beneficiary,
                                         WrappingAdd(to_account.free, actual))
                   ELSE set_reserved_balance(s, cid, beneficiary,
                                             WrappingAdd(to_account.reserved, actual))
         IN Ret(s1, value - actual)

repatriate_reserved(s, cid, slashed, beneficiary, value, status) ==
    IF value = 0 THEN Ret(s, 0)
    ELSE IF slashed = beneficiary
    THEN (IF status = "Free" THEN unreserve(s, cid, slashed, value)
          ELSE Ret(s, SaturatingSub(value, reserved_balance(s, cid, slashed))))
    ELSE LET from_account == accounts(s, cid, slashed)
             to_account == accounts(s, cid, beneficiary)
             actual == Min(from_account.reserved, value)
             s1 == IF status = "Free"
                   THEN set_free_balance(Note(s, AddWraps(to_account.free, actual)),
                                         cid, beneficiary,
                                         WrappingAdd(to_account.free, actual))
                   ELSE set_reserved_balance(
                            Note(s, AddWraps(to_account.reserved, actual)),
                            cid, beneficiary, WrappingAdd(to_account.reserved, actual))
             s2 == set_reserved_balance(s1, cid, slashed, from_account.reserved - actual)
         IN Ret(s2, value - actual)

---------------------------------------------------------------------------
(* decl_module (tokens): dispatchables; the origin is the signed account *)

deposit_event(s, ev) == [s EXCEPT !.events = Append(@, ev)]

TokensTransferred(cid, from, to, amount) ==
    [module |-> "tokens", kind |-> "Transferred", cid |-> cid, who |-> from,
     to |-> to, amount |-> amount]

tokens_transfer(s, from, to, cid, amount) ==
    LET r == transfer(s, cid, from, to, amount)
    IN IF r.res # "Ok" THEN r
       ELSE Ok(deposit_event(r.s, TokensTransferred(cid, from, to, amount)))

\* transfer_all that moves the total balance instead of the free balance
transfer_all_moves_total(s, from, to, cid) ==
    LET balance == total_balance(s, cid, from)
        r == transfer(s, cid, from, to, balance)
    IN IF r.res # "Ok" THEN r
       ELSE Ok(deposit_event(r.s, TokensTransferred(cid, from, to, balance)))

transfer_all(s, from, to, cid) ==
    LET balance == free_balance(s, cid, from)
        r == transfer(s, cid, from, to, balance)
    IN IF r.res # "Ok" THEN r
       ELSE Ok(deposit_event(r.s, TokensTransferred(cid, from, to, balance)))

---------------------------------------------------------------------------
(* The native provider: BasicCurrencyAdapter (currencies) over a pallet       *)
(* Currency that holds a free balance, a reserved balance and a list of locks *)
(* per account                                                                 *)

\* the largest lock on a native account: what its free balance may not go below
pallet_frozen(s, who) == frozen_fold(0, s.native[who].locks, 1)

\* Currency::total_issuance(): the pallet's issuance follows its balances
RECURSIVE pallet_total_issuance_over(_, _)
pallet_total_issuance_over(s, S) ==
    IF S = {} THEN 0
    ELSE LET a == CHOOSE x \in S : TRUE
         IN s.native[a].free + s.native[a].reserved
                + pallet_total_issuance_over(s, S \ {a})

\* Currency::ensure_can_withdraw(who, amount, reasons, new_balance)
pallet_ensure_can_withdraw(s, who, amount, new_balance) ==
    IF amount = 0 THEN "Ok"
    ELSE IF new_balance < pallet_frozen(s, who) THEN "LiquidityRestrictions"
    ELSE "Ok"

\* Currency::transfer(from, to, amount, ExistenceRequirement::AllowDeath)
pallet_transfer(s, from, to, value) ==
    IF value = 0 \/ from = to THEN Ok(s)
    ELSE IF s.native[from].free < value THEN Err(s, "InsufficientBalance")
    ELSE IF AddWraps(s.native[to].free, value) THEN Err(s, "Overflow")
    ELSE IF s.native[from].free - value < pallet_frozen(s, from)
    THEN Err(s, "LiquidityRestrictions")
    ELSE Ok([s EXCEPT !.native[from].free = @ - value, !.native[to].free = @ + value])

\* Currency::deposit_creating(who, amount): gives up silently when it cannot credit
pallet_deposit_creating(s, who, value) ==
    IF AddWraps(s.native[who].free, value) THEN s
    ELSE [s EXCEPT !.native[who].free = @ + value]

\* Currency::withdraw(who, amount, WithdrawReason::Transfer, AllowDeath)
pallet_withdraw(s, who, value) ==
    IF value = 0 THEN Ok(s)
    ELSE IF s.native[who].free < value THEN Err(s, "InsufficientBalance")
    ELSE IF s.native[who].free - value < pallet_frozen(s, who)
    THEN Err(s, "LiquidityRestrictions")
    ELSE Ok([s EXCEPT !.native[who].free = @ - value])

\* ReservableCurrency::reserve(who, amount)
pallet_reserve(s, who, value) ==
    IF value = 0 THEN Ok(s)
    ELSE IF s.native[who].free < value THEN Err(s, "InsufficientBalance")
    ELSE IF AddWraps(s.native[who].reserved, value) THEN Err(s, "Overflow")
    ELSE IF s.native[who].free - value < pallet_frozen(s, who)
    THEN Err(s, "LiquidityRestrictions")
    ELSE Ok([s EXCEPT !.native[who].free = @ - value, !.native[who].reserved = @ + value])

\* the adapter's can_slash: Currency::can_slash(who, value)
adapter_can_slash(s, who, value) ==
    IF value = 0 THEN TRUE ELSE s.native[who].free >= value

\* the adapter's slash: Currency::slash(who, value): from free, then from reserved; returns the gap
adapter_slash(s, who, value) ==
    IF value = 0 THEN Ret(s, 0)
    ELSE LET free_slash == Min(s.native[who].free, value)
             remaining_slash == value - free_slash
             reserved_slash == Min(s.native[who].reserved, remaining_slash)
         IN Ret([s EXCEPT !.native[who].free = @ - free_slash,
                          !.native[who].reserved = @ - reserved_slash],
                remaining_slash - reserved_slash)

\* the adapter's set_lock: LockableCurrency::set_lock(id, who, amount, reasons)
adapter_set_lock(s, lock_id, who, amount) ==
    IF amount = 0 THEN s
    ELSE LET new_lock == [id |-> lock_id, amount |-> amount]
             old == s.native[who].locks
             kept == set_lock_filter_map(old, new_lock, FALSE, 1)
         IN [s EXCEPT !.native[who].locks =
                 IF new_lock_left(old, lock_id) THEN Append(kept, new_lock) ELSE kept]

\* the adapter's extend_lock: LockableCurrency::extend_lock(id, who, amount, reasons)
adapter_extend_lock(s, lock_id, who, amount) ==
    IF amount = 0 THEN s
    ELSE LET new_lock == [id |-> lock_id, amount |-> amount]
             old == s.native[who].locks
             kept == extend_lock_filter_map(old, new_lock, FALSE, 1)
         IN [s EXCEPT !.native[who].locks =
                 IF new_lock_left(old, lock_id) THEN Append(kept, new_lock) ELSE kept]

\* the adapter's remove_lock: LockableCurrency::remove_lock(id, who)
adapter_remove_lock(s, lock_id, who) ==
    [s EXCEPT !.native[who].locks = retain(@, lock_id, 1)]

\* the adapter's can_reserve: ReservableCurrency::can_reserve(who, value)
adapter_can_reserve(s, who, value) ==
    IF value = 0 THEN TRUE
    ELSE /\ s.native[who].free >= value
         /\ pallet_ensure_can_withdraw(s, who, value, s.native[who].free - value) = "Ok"

\* the adapter's slash_reserved: ReservableCurrency::slash_reserved(who, value): returns the gap
adapter_slash_reserved(s, who, value) ==
    IF value = 0 THEN Ret(s, 0)
    ELSE LET actual == Min(s.native[who].reserved, value)
         IN Ret([s EXCEPT !.native[who].reserved = @ - actual], value - actual)

\* the adapter's unreserve: ReservableCurrency::unreserve(who, value): returns what could not be unreserved
adapter_unreserve(s, who, value) ==
    IF value = 0 THEN Ret(s, 0)
    ELSE LET actual == Min(s.native[who].reserved, value)
         IN Ret([s EXCEPT !.native[who].reserved = @ - actual,
                          !.native[who].free = SaturatingAdd(@, actual)],
                value - actual)

\* the adapter's repatriate_reserved: ReservableCurrency::repatriate_reserved(slashed, beneficiary, value, status)
adapter_repatriate_reserved(s, slashed, beneficiary, value, status) ==
    IF value = 0 THEN Ret(s, 0)
    ELSE IF slashed = beneficiary
    THEN (IF status = "Free" THEN adapter_unreserve(s, slashed, value)
          ELSE Ret(s, SaturatingSub(value, s.native[slashed].reserved)))
    ELSE IF s.native[beneficiary].free + s.native[beneficiary].reserved = 0
    THEN Err(s, "DeadAccount")
    ELSE LET actual == Min(s.native[slashed].reserved, value)
             to == IF status = "Free" THEN s.native[beneficiary].free
                   ELSE s.native[beneficiary].reserved
         IN IF AddWraps(to, actual) THEN Err(s, "Overflow")
            ELSE LET s1 == IF status = "Free"
                           THEN [s EXCEPT !.native[beneficiary].free = @ + actual]
                           ELSE [s EXCEPT !.native[beneficiary].reserved = @ + actual]
                 IN Ret([s1 EXCEPT !.native[slashed].reserved = @ - actual],
                        value - actual)

adapter_total_issuance(s) == pallet_total_issuance_over(s, AccountId)

adapter_total_balance(s, who) == s.native[who].free + s.native[who].reserved

adapter_free_balance(s, who) == s.native[who].free

adapter_ensure_can_withdraw(s, who, amount) ==
    IF adapter_free_balance(s, who) < amount THEN "BalanceTooLow"
    ELSE pallet_ensure_can_withdraw(s, who, amount, adapter_free_balance(s, who) - amount)

adapter_transfer(s, from, to, amount) == pallet_transfer(s, from, to, amount)

adapter_deposit(s, who, amount) == Ok(pallet_deposit_creating(s, who, amount))

adapter_withdraw(s, who, amount) == pallet_withdraw(s, who, amount)

adapter_reserve(s, who, value) == pallet_reserve(s, who, value)

\* adapter update_balance that fails when deposit_creating credited nothing
adapter_update_balance_reports_deposit(s, who, by_amount) ==
    IF ~try_into_balance_ok(abs(by_amount)) THEN Err(s, "AmountIntoBalanceFailed")
    ELSE IF by_amount > 0
    THEN (IF pallet_deposit_creating(s, who, abs(by_amount)) = s THEN Err(s, "Overflow")
          ELSE adapter_deposit(s, who, abs(by_amount)))
    ELSE adapter_withdraw(s, who, abs(by_amount))

adapter_update_balance(s, who, by_amount) ==
    IF ~try_into_balance_ok(abs(by_amount)) THEN Err(s, "AmountIntoBalanceFailed")
    ELSE IF by_amount > 0 THEN adapter_deposit(s, who, abs(by_amount))
    ELSE adapter_withdraw(s, who, abs(by_amount))

adapter_reserved_balance(s, who) == s.native[who].reserved

---------------------------------------------------------------------------
(* impl MultiCurrency / MultiCurrencyExtended for Module (currencies): facade *)

CurrenciesEvent(kind, cid, who, to, amount) ==
    [module |-> "currencies", kind |-> kind, cid |-> cid, who |-> who,
     to |-> to, amount |-> amount]

\* facade transfer without the early return for a zero amount
currencies_transfer_no_zero_branch(s, cid, from, to, amount) ==
    LET r == IF cid = NativeCurrencyId
             THEN adapter_transfer(s, from, to, amount)
             ELSE transfer(s, cid, from, to, amount)
    IN IF r.res # "Ok" THEN r
       ELSE Ok(deposit_event(r.s, CurrenciesEvent("Transferred", cid, from, to, amount)))

currencies_transfer(s, cid, from, to, amount) ==
    IF amount = 0 THEN Ok(s)
    ELSE LET r == IF cid = NativeCurrencyId
                  THEN adapter_transfer(s, from, to, amount)
                  ELSE transfer(s, cid, from, to, amount)
         IN IF r.res # "Ok" THEN r
            ELSE Ok(deposit_event(r.s,
                        CurrenciesEvent("Transferred", cid, from, to, amount)))

currencies_deposit(s, cid, who, amount) ==
    IF amount = 0 THEN Ok(s)
    ELSE LET r == IF cid = NativeCurrencyId
                  THEN adapter_deposit(s, who, amount)
                  ELSE deposit(s, cid, who, amount)
         IN IF r.res # "Ok" THEN r
            ELSE Ok(deposit_event(r.s,
                        CurrenciesEvent("Deposited", cid, who, who, amount)))

\* facade withdraw that deposits its event before it delegates
currencies_withdraw_event_first(s, cid, who, amount) ==
    IF amount = 0 THEN Ok(s)
    ELSE LET s1 == deposit_event(s, CurrenciesEvent("Withdrawn", cid, who, who, amount))
         IN IF cid = NativeCurrencyId
            THEN adapter_withdraw(s1, who, amount)
            ELSE withdraw(s1, cid, who, amount)

currencies_withdraw(s, cid, who, amount) ==
    IF amount = 0 THEN Ok(s)
    ELSE LET r == IF cid = NativeCurrencyId
                  THEN adapter_withdraw(s, who, amount)
                  ELSE withdraw(s, cid, who, amount)
         IN IF r.res # "Ok" THEN r
            ELSE Ok(deposit_event(r.s,
                        CurrenciesEvent("Withdrawn", cid, who, who, amount)))

currencies_update_balance(s, cid, who, by_amount) ==
    LET r == IF cid = NativeCurrencyId
             THEN adapter_update_balance(s, who, by_amount)
             ELSE update_balance(s, cid, who, by_amount)
    IN IF r.res # "Ok" THEN r
       ELSE Ok(deposit_event(r.s,
                   CurrenciesEvent("BalanceUpdated", cid, who, who, by_amount)))

currencies_reserve(s, cid, who, value) ==
    IF cid = NativeCurrencyId THEN adapter_reserve(s, who, value)
    ELSE reserve(s, cid, who, value)

currencies_total_issuance(s, cid) ==
    IF cid = NativeCurrencyId THEN adapter_total_issuance(s)
    ELSE total_issuance(s, cid)

currencies_total_balance(s, cid, who) ==
    IF cid = NativeCurrencyId THEN adapter_total_balance(s, who)
    ELSE total_balance(s, cid, who)

currencies_free_balance(s, cid, who) ==
    IF cid = NativeCurrencyId THEN adapter_free_balance(s, who)
    ELSE free_balance(s, cid, who)

currencies_ensure_can_withdraw(s, cid, who, amount) ==
    IF cid = NativeCurrencyId THEN adapter_ensure_can_withdraw(s, who, amount)
    ELSE ensure_can_withdraw(s, cid, who, amount)

currencies_can_slash(s, cid, who, amount) ==
    IF cid = NativeCurrencyId THEN adapter_can_slash(s, who, amount)
    ELSE can_slash(s, cid, who, amount)

\* facade slash that always goes to the engine
currencies_slash_engine_only(s, cid, who, amount) == slash(s, cid, who, amount)

currencies_slash(s, cid, who, amount) ==
    IF cid = NativeCurrencyId THEN adapter_slash(s, who, amount)
    ELSE slash(s, cid, who, amount)

currencies_set_lock(s, lock_id, cid, who, amount) ==
    IF cid = NativeCurrencyId THEN adapter_set_lock(s, lock_id, who, amount)
    ELSE set_lock(s, lock_id, cid, who, amount)

currencies_extend_lock(s, lock_id, cid, who, amount) ==
    IF cid = NativeCurrencyId THEN adapter_extend_lock(s, lock_id, who, amount)
    ELSE extend_lock(s, lock_id, cid, who, amount)

currencies_remove_lock(s, lock_id, cid, who) ==
    IF cid = NativeCurrencyId THEN adapter_remove_lock(s, lock_id, who)
    ELSE remove_lock(s, lock_id, cid, who)

currencies_can_reserve(s, cid, who, value) ==
    IF cid = NativeCurrencyId THEN adapter_can_reserve(s, who, value)
    ELSE can_reserve(s, cid, who, value)

currencies_slash_reserved(s, cid, who, value) ==
    IF cid = NativeCurrencyId THEN adapter_slash_reserved(s, who, value)
    ELSE slash_reserved(s, cid, who, value)

currencies_reserved_balance(s, cid, who) ==
    IF cid = NativeCurrencyId THEN adapter_reserved_balance(s, who)
    ELSE reserved_balance(s, cid, who)

currencies_unreserve(s, cid, who, value) ==
    IF cid = NativeCurrencyId THEN adapter_unreserve(s, who, value)
    ELSE unreserve(s, cid, who, value)

currencies_repatriate_reserved(s, cid, slashed, beneficiary, value, status) ==
    IF cid = NativeCurrencyId
    THEN adapter_repatriate_reserved(s, slashed, beneficiary, value, status)
    ELSE repatriate_reserved(s, cid, slashed, beneficiary, value, status)

\* the read-only facade operations, by name; a boolean answer is returned as 1 or 0
FacadeQueries ==
    {"currencies_total_issuance", "currencies_total_balance", "currencies_free_balance",
     "currencies_reserved_balance", "currencies_ensure_can_withdraw",
     "currencies_can_slash", "currencies_can_reserve"}

Flag(b) == IF b THEN 1 ELSE 0

currencies_query(s, q, cid, who, amount) ==
    CASE q = "currencies_total_issuance" -> Ret(s, currencies_total_issuance(s, cid))
      [] q = "currencies_total_balance" -> Ret(s, currencies_total_balance(s, cid, who))
      [] q = "currencies_free_balance" -> Ret(s, currencies_free_balance(s, cid, who))
      [] q = "currencies_reserved_balance" ->
             Ret(s, currencies_reserved_balance(s, cid, who))
      [] q = "currencies_ensure_can_withdraw" ->
             Err(s, currencies_ensure_can_withdraw(s, cid, who, amount))
      [] q = "currencies_can_slash" ->
             Ret(s, Flag(currencies_can_slash(s, cid, who, amount)))
      [] q = "currencies_can_reserve" ->
             Ret(s, Flag(currencies_can_reserve(s, cid, who, amount)))

---------------------------------------------------------------------------
(* decl_module (currencies): dispatchables; transfer and update_balance hand  *)
(* their arguments to the facade operations above                              *)

transfer_native_currency(s, from, to, amount) ==
    LET r == adapter_transfer(s, from, to, amount)
    IN IF r.res # "Ok" THEN r
       ELSE Ok(deposit_event(r.s,
                   CurrenciesEvent("Transferred", NativeCurrencyId, from, to, amount)))

---------------------------------------------------------------------------
(* Genesis: decl_storage build closures over config.endowed_accounts, a       *)
(* sequence of <<account, currency, balance>>                                  *)

\* the fold of the TotalIssuance build over the first n entries; checked_add
\* panics on overflow, which genesis_ok excludes
RECURSIVE genesis_issuance(_, _)
genesis_issuance(cfg, n) ==
    IF n = 0 THEN [c \in CurrencyId |-> 0]
    ELSE LET acc == genesis_issuance(cfg, n - 1)
         IN [acc EXCEPT ![cfg[n][2]] = @ + cfg[n][3]]

genesis_ok(cfg) ==
    \A n \in 0..Len(cfg) : \A c \in CurrencyId : genesis_issuance(cfg, n)[c] <= MaxBalance

\* add_extra_genesis: each entry overwrites the free balance of its account
RECURSIVE genesis_accounts(_, _)
genesis_accounts(cfg, n) ==
    IF n = 0 THEN [c \in CurrencyId |-> [a \in AccountId |-> DefaultAccountData]]
    ELSE LET acc == genesis_accounts(cfg, n - 1)
         IN [acc EXCEPT ![cfg[n][2]][cfg[n][1]].free = cfg[n][3]]

MaxGenesis == 2

\* the existential deposits a runtime is configured with
Deposits == {2, 3}

\* sequences of at most MaxGenesis entries over the given accounts, currencies, balances
GenesisConfigs(who, cids, bals) ==
    UNION {[1..n -> who \X cids \X bals] : n \in 0..MaxGenesis}

DistinctKeys(cfg) ==
    \A i, j \in 1..Len(cfg) : (cfg[i][1] = cfg[j][1] /\ cfg[i][2] = cfg[j][2]) => i = j

---------------------------------------------------------------------------
(* schedule-update: the delayed dispatch scheduler.  Its storage is one    *)
(* record: the block number of frame_system, NextId, the delayed           *)
(* dispatches [block, id, who, call] under the block they are stored for,  *)
(* and two history fields kept for the properties: `target`, the block a   *)
(* dispatch was scheduled for, and `cancelled` / `executed`, the ids that  *)
(* were cancelled and how often each id was dispatched.                    *)

MaxBlock == 3
MaxDispatch == 3

DispatchId == 0..(MaxDispatch - 1)

\* Origin::ROOT; every other origin is Origin::signed(account)
Root == "root"

\* the weight on_initialize may spend in one block, and the weight of one
\* delayed call: two of three calls of one block are dispatched in it
MaxScheduleDispatchWeight == 2

CallWeight(call) == 1

\* the externalities the tests are built on: block 1, nothing scheduled
NoSchedule ==
    [now |-> 1, next_id |-> 0, dispatches |-> {}, cancelled |-> {},
     executed |-> [id \in DispatchId |-> 0]]

At(block_number) == [kind |-> "At", n |-> block_number]

After(block_count) == [kind |-> "After", n |-> block_count]

ScheduleUpdateEvent(name, block, id, error) ==
    [name |-> name, block |-> block, id |-> id, error |-> error]

SchedOk(s, evs) == [s |-> s, events |-> evs, res |-> "Ok"]

SchedErr(s, e) == [s |-> s, events |-> <<>>, res |-> e]

\* the block a DelayedDispatchTime stands for
when_block(s, when) == IF when.kind = "At" THEN when.n ELSE s.now + when.n

schedule_dispatch(s, origin, call, when) ==
    LET block == when_block(s, when)
        id == s.next_id
    IN IF block <= s.now THEN SchedErr(s, "InvalidDelayedDispatchTime")
       ELSE SchedOk([s EXCEPT !.next_id = id + 1,
                              !.dispatches = @ \cup {[block |-> block, id |-> id,
                                                      who |-> origin, call |-> call,
                                                      target |-> block]}],
                    <<ScheduleUpdateEvent("ScheduleDispatch", block, id, "-")>>)

\* mutant of cancel_deplayed_dispatch: the origin is not compared with the one
\* that scheduled the dispatch
cancel_deplayed_dispatch_any_origin(s, origin, at, id) ==
    LET found == {d \in s.dispatches : d.block = at /\ d.id = id}
    IN IF found = {} THEN SchedErr(s, "DispatchNotExisted")
       ELSE SchedOk([s EXCEPT !.dispatches = @ \ found,
                              !.cancelled = @ \cup {id}],
                    <<ScheduleUpdateEvent("CancelDeplayedDispatch", 0, id, "-")>>)

cancel_deplayed_dispatch(s, origin, at, id) ==
    LET found == {d \in s.dispatches : d.block = at /\ d.id = id}
    IN IF found = {} THEN SchedErr(s, "DispatchNotExisted")
       ELSE IF origin # Root /\ \E d \in found : d.who # origin
       THEN SchedErr(s, "NoPermission")
       ELSE SchedOk([s EXCEPT !.dispatches = @ \ found,
                              !.cancelled = @ \cup {id}],
                    <<ScheduleUpdateEvent("CancelDeplayedDispatch", 0, id, "-")>>)

\* the result of the delayed call under the origin that scheduled it:
\* Balances::transfer wants a signed origin with the funds, set_balance Root
dispatch(call, who) ==
    IF call = "set_balance" THEN (IF who = Root THEN "Ok" ELSE "BadOrigin")
    ELSE IF who = Root THEN "BadOrigin"
    ELSE IF call = "transfer_110" THEN "Module"
    ELSE "Ok"

dispatch_event(d, now) ==
    IF dispatch(d.call, d.who) = "Ok"
    THEN ScheduleUpdateEvent("ScheduleDispatchSuccess", now, d.id, "-")
    ELSE ScheduleUpdateEvent("ScheduleDispatchFail", 0, d.id, dispatch(d.call, d.who))

\* the dispatches stored for block now
due(s, now) == {d \in s.dispatches : d.block = now}

RECURSIVE weight_of(_)
weight_of(S) ==
    IF S = {} THEN 0
    ELSE LET d == CHOOSE x \in S : TRUE IN CallWeight(d.call) + weight_of(S \ {d})

\* the orders in which storage may hand out the dispatches of a block until
\* the next one would exceed MaxScheduleDispatchWeight
Picked(s, now) ==
    LET D == due(s, now)
        fits(q) == weight_of({q[i] : i \in DOMAIN q}) <= MaxScheduleDispatchWeight
    IN {q \in UNION {[1..k -> D] : k \in 0..Cardinality(D)} :
            /\ \A i, j \in DOMAIN q : q[i] = q[j] => i = j
            /\ fits(q)
            /\ \A d \in D \ {q[i] : i \in DOMAIN q} :
                   ~fits(Append(q, d))}

\* mutant of on_initialize: what did not fit in the block is removed with the
\* rest instead of being moved to the next block
on_initialize_drops_overweight(s, now, picked) ==
    LET ran == {picked[i] : i \in DOMAIN picked}
    IN SchedOk([s EXCEPT !.dispatches = @ \ due(s, now),
                         !.executed = [id \in DispatchId |->
                                           IF \E d \in ran : d.id = id
                                           THEN @[id] + 1 ELSE @[id]]],
               [i \in DOMAIN picked |-> dispatch_event(picked[i], now)])

\* block now begins: the picked dispatches run in their order, each leaves one
\* event and its entry is removed; what did not fit moves to the next block
on_initialize(s, now, picked) ==
    LET ran == {picked[i] : i \in DOMAIN picked}
        moved == {[d EXCEPT !.block = now + 1] : d \in due(s, now) \ ran}
    IN SchedOk([s EXCEPT !.dispatches = (@ \ due(s, now)) \cup moved,
                         !.executed = [id \in DispatchId |->
                                           IF \E d \in ran : d.id = id
                                           THEN @[id] + 1 ELSE @[id]]],
               [i \in DOMAIN picked |-> dispatch_event(picked[i], now)])

NoCall ==
    [op |-> "none", cid |-> "-", who |-> "-", to |-> "-", amount |-> 0,
     id |-> 0, status |-> "-", res |-> "Ok", ret |-> 0]

\* the state after construction from cfg, with the native provider holding nat
Genesis(cfg, nat) ==
    /\ genesis_ok(cfg)
    /\ Accounts = genesis_accounts(cfg, Len(cfg))
    /\ TotalIssuance = genesis_issuance(cfg, Len(cfg))
    /\ Locks = <<>>
    /\ refs = [a \in AccountId |-> 0]
    /\ native = nat
    /\ dust = <<>>
    /\ events = <<>>
    /\ wrapped = FALSE
    /\ last = NoCall
    /\ scheduler = NoSchedule

NoNative == [a \in AccountId |-> [free |-> 0, reserved |-> 0, locks |-> <<>>]]

---------------------------------------------------------------------------
(* Actions: one call of one operation on the current ledger *)

Call(op, cid, who, to, amount) ==
    [NoCall EXCEPT !.op = op, !.cid = cid, !.who = who, !.to = to, !.amount = amount]

\* a call starts when none is returning; its result r becomes the state and
\* the call is recorded in last
Apply(r, call) ==
    /\ last = NoCall
    /\ UNCHANGED <<ExistentialDeposit, scheduler>>
    /\ Accounts' = r.s.Accounts
    /\ Locks' = r.s.Locks
    /\ TotalIssuance' = r.s.TotalIssuance
    /\ refs' = r.s.refs
    /\ native' = r.s.native
    /\ dust' = r.s.dust
    /\ events' = r.s.events
    /\ wrapped' = r.s.wrapped
    /\ last' = [call EXCEPT !.res = r.res, !.ret = r.ret]

\* a scope sc bounds the arguments the calls draw:
\*   sc.cids, sc.who, sc.amounts, sc.ids, sc.lock_amounts, sc.by_amounts

EnsureCanWithdraw(sc) ==
    \E cid \in sc.cids, who \in sc.who, amount \in sc.amounts :
        Apply(Err(AtCall, ensure_can_withdraw(AtCall, cid, who, amount)),
              Call("ensure_can_withdraw", cid, who, "-", amount))

Transfer(sc) ==
    \E cid \in sc.cids, from \in sc.who, to \in sc.who, amount \in sc.amounts :
        Apply(transfer(AtCall, cid, from, to, amount),
              Call("transfer", cid, from, to, amount))

Deposit(sc) ==
    \E cid \in sc.cids, who \in sc.who, amount \in sc.amounts :
        Apply(deposit(AtCall, cid, who, amount), Call("deposit", cid, who, "-", amount))

Withdraw(sc) ==
    \E cid \in sc.cids, who \in sc.who, amount \in sc.amounts :
        Apply(withdraw(AtCall, cid, who, amount), Call("withdraw", cid, who, "-", amount))

Slash(sc) ==
    \E cid \in sc.cids, who \in sc.who, amount \in sc.amounts :
        Apply(slash(AtCall, cid, who, amount), Call("slash", cid, who, "-", amount))

UpdateBalance(sc) ==
    \E cid \in sc.cids, who \in sc.who, by_amount \in sc.by_amounts :
        Apply(update_balance(AtCall, cid, who, by_amount),
              Call("update_balance", cid, who, "-", by_amount))

SetLock(sc) ==
    \E cid \in sc.cids, who \in sc.lock_who, id \in sc.ids, amount \in sc.lock_amounts :
        Apply(Ok(set_lock(AtCall, id, cid, who, amount)),
              [Call("set_lock", cid, who, "-", amount) EXCEPT !.id = id])

ExtendLock(sc) ==
    \E cid \in sc.cids, who \in sc.lock_who, id \in sc.ids, amount \in sc.lock_amounts :
        Apply(Ok(extend_lock(AtCall, id, cid, who, amount)),
              [Call("extend_lock", cid, who, "-", amount) EXCEPT !.id = id])

RemoveLock(sc) ==
    \E cid \in sc.cids, who \in sc.lock_who, id \in sc.ids :
        Apply(Ok(remove_lock(AtCall, id, cid, who)),
              [Call("remove_lock", cid, who, "-", 0) EXCEPT !.id = id])

Reserve(sc) ==
    \E cid \in sc.cids, who \in sc.who, value \in sc.amounts :
        Apply(reserve(AtCall, cid, who, value), Call("reserve", cid, who, "-", value))

Unreserve(sc) ==
    \E cid \in sc.cids, who \in sc.who, value \in sc.amounts :
        Apply(unreserve(AtCall, cid, who, value), Call("unreserve", cid, who, "-", value))

SlashReserved(sc) ==
    \E cid \in sc.cids, who \in sc.who, value \in sc.amounts :
        Apply(slash_reserved(AtCall, cid, who, value),
              Call("slash_reserved", cid, who, "-", value))

RepatriateReserved(sc) ==
    \E cid \in sc.cids, slashed \in sc.who, beneficiary \in sc.who,
       value \in sc.amounts, status \in BalanceStatus :
        Apply(repatriate_reserved(AtCall, cid, slashed, beneficiary, value, status),
              [Call("repatriate_reserved", cid, slashed, beneficiary, value)
                  EXCEPT !.status = status])

TokensTransfer(sc) ==
    \E cid \in sc.cids, from \in sc.who, to \in sc.who, amount \in sc.amounts :
        Apply(tokens_transfer(AtCall, from, to, cid, amount),
              Call("tokens_transfer", cid, from, to, amount))

TransferAll(sc) ==
    \E cid \in sc.cids, from \in sc.who, to \in sc.who :
        Apply(transfer_all(AtCall, from, to, cid),
              Call("transfer_all", cid, from, to, free_balance(AtCall, cid, from)))

\* the caller takes the result: the record of the call and its logs are dropped
Return ==
    /\ last # NoCall
    /\ last' = NoCall
    /\ dust' = <<>>
    /\ events' = <<>>
    /\ wrapped' = FALSE
    /\ UNCHANGED <<ExistentialDeposit, Accounts, Locks, TotalIssuance, refs, native, scheduler>>

EngineNext(sc) ==
    \/ EnsureCanWithdraw(sc)
    \/ Transfer(sc)
    \/ Deposit(sc)
    \/ Withdraw(sc)
    \/ Slash(sc)
    \/ UpdateBalance(sc)
    \/ SetLock(sc)
    \/ ExtendLock(sc)
    \/ RemoveLock(sc)
    \/ Reserve(sc)
    \/ Unreserve(sc)
    \/ SlashReserved(sc)
    \/ RepatriateReserved(sc)
    \/ TokensTransfer(sc)
    \/ TransferAll(sc)

---------------------------------------------------------------------------
(* Spec: the engine on one currency, two accounts, every amount, one lock id; *)
(* genesis endows each (account, currency) at most once with any balance      *)

EngineScope ==
    [cids |-> {"X"}, who |-> {"alice", "bob"}, amounts |-> Balance,
     by_amounts |-> Amount, lock_who |-> {"alice", "bob"}, ids |-> {1},
     lock_amounts |-> {0, 1, 3}]

Init ==
    /\ ExistentialDeposit \in Deposits
    /\ \E cfg \in GenesisConfigs(EngineScope.who, EngineScope.cids, Balance) :
           DistinctKeys(cfg) /\ Genesis(cfg, NoNative)

Next == EngineNext(EngineScope) \/ Return

Spec == Init /\ [][Next]_vars

---------------------------------------------------------------------------
(* SpecED: the same calls from a genesis whose balances are each 0 or at      *)
(* least the existential deposit                                               *)

ValidBalance == {b \in Balance : b = 0 \/ b >= ExistentialDeposit}

InitED ==
    /\ ExistentialDeposit \in Deposits
    /\ \E cfg \in GenesisConfigs(EngineScope.who, EngineScope.cids, ValidBalance) :
           DistinctKeys(cfg) /\ Genesis(cfg, NoNative)

SpecED == InitED /\ [][Next]_vars

---------------------------------------------------------------------------
(* SpecLocks: lock operations with two lock ids and every lock amount on one  *)
(* account, next to the balance operations                                     *)

LocksScope ==
    [EngineScope EXCEPT !.lock_who = {"alice"}, !.ids = LockIdentifier,
                        !.lock_amounts = 0..3, !.by_amounts = {-2, 2}]

InitLocks ==
    /\ ExistentialDeposit = 2
    /\ \E cfg \in GenesisConfigs(LocksScope.who, LocksScope.cids, ValidBalance) :
           DistinctKeys(cfg) /\ Genesis(cfg, NoNative)

NextLocks == EngineNext(LocksScope) \/ Return

SpecLocks == InitLocks /\ [][NextLocks]_vars

---------------------------------------------------------------------------
(* SpecFacade: calls through the facade, for the native currency and for X,   *)
(* next to the same calls made on the engine                                   *)

FacadeScope ==
    [cids |-> {"X"}, facade_cids |-> {NativeCurrencyId, "X"},
     who |-> {"alice", "bob"}, amounts |-> Balance, by_amounts |-> Amount,
     lock_who |-> {"alice"}, ids |-> {1}, lock_amounts |-> {3},
     native_who |-> {"alice"}, native_amounts |-> {0, 3, Modulus}]

\* the amounts and the acting accounts a facade call draws for a currency
FacadeAmounts(sc, cid, amounts) ==
    IF cid = NativeCurrencyId THEN amounts \cap sc.native_amounts ELSE amounts

FacadeWho(sc, cid) ==
    IF cid = NativeCurrencyId THEN sc.native_who ELSE sc.who

CurrenciesTransfer(sc) ==
    \E cid \in sc.facade_cids, to \in sc.who :
        \E from \in FacadeWho(sc, cid), amount \in FacadeAmounts(sc, cid, sc.amounts) :
            Apply(currencies_transfer(AtCall, cid, from, to, amount),
                  Call("currencies_transfer", cid, from, to, amount))

CurrenciesDeposit(sc) ==
    \E cid \in sc.facade_cids :
        \E who \in FacadeWho(sc, cid), amount \in FacadeAmounts(sc, cid, sc.amounts) :
            Apply(currencies_deposit(AtCall, cid, who, amount),
                  Call("currencies_deposit", cid, who, "-", amount))

CurrenciesWithdraw(sc) ==
    \E cid \in sc.facade_cids :
        \E who \in FacadeWho(sc, cid), amount \in FacadeAmounts(sc, cid, sc.amounts) :
            Apply(currencies_withdraw(AtCall, cid, who, amount),
                  Call("currencies_withdraw", cid, who, "-", amount))

CurrenciesUpdateBalance(sc) ==
    \E cid \in sc.facade_cids :
        \E who \in FacadeWho(sc, cid),
           by_amount \in {x \in sc.by_amounts :
                             abs(x) \in FacadeAmounts(sc, cid, 0..Modulus)} :
            Apply(currencies_update_balance(AtCall, cid, who, by_amount),
                  Call("currencies_update_balance", cid, who, "-", by_amount))

CurrenciesReserve(sc) ==
    \E cid \in sc.facade_cids :
        \E who \in FacadeWho(sc, cid), value \in FacadeAmounts(sc, cid, sc.amounts) :
            Apply(currencies_reserve(AtCall, cid, who, value),
                  Call("currencies_reserve", cid, who, "-", value))

TransferNativeCurrency(sc) ==
    \E from \in sc.native_who, to \in sc.who,
       amount \in FacadeAmounts(sc, NativeCurrencyId, sc.amounts) :
        Apply(transfer_native_currency(AtCall, from, to, amount),
              Call("transfer_native_currency", NativeCurrencyId, from, to, amount))

FacadeNext(sc) ==
    \/ CurrenciesTransfer(sc)
    \/ CurrenciesDeposit(sc)
    \/ CurrenciesWithdraw(sc)
    \/ CurrenciesUpdateBalance(sc)
    \/ CurrenciesReserve(sc)
    \/ TransferNativeCurrency(sc)

InitFacade ==
    /\ ExistentialDeposit \in Deposits
    /\ \E cfg \in GenesisConfigs(FacadeScope.who, FacadeScope.cids, ValidBalance) :
           DistinctKeys(cfg) /\ Genesis(cfg, NoNative)

NextFacade ==
    \/ FacadeNext(FacadeScope)
    \/ Transfer(FacadeScope)
    \/ Deposit(FacadeScope)
    \/ Withdraw(FacadeScope)
    \/ Reserve(FacadeScope)
    \/ UpdateBalance(FacadeScope)
    \/ SetLock(FacadeScope)
    \/ TokensTransfer(FacadeScope)
    \/ TransferAll(FacadeScope)
    \/ Return

SpecFacade == InitFacade /\ [][NextFacade]_vars

---------------------------------------------------------------------------
(* SpecRefs: lock operations alone, on two currencies and two lock ids of one *)
(* account, from a genesis without balances                                    *)

RefsScope ==
    [EngineScope EXCEPT !.cids = {"X", "Y"}, !.lock_who = {"alice"},
                        !.ids = LockIdentifier, !.lock_amounts = {0, 1, 2}]

InitRefs ==
    /\ ExistentialDeposit \in Deposits
    /\ Genesis(<<>>, NoNative)

NextRefs ==
    \/ SetLock(RefsScope)
    \/ ExtendLock(RefsScope)
    \/ RemoveLock(RefsScope)
    \/ Return

SpecRefs == InitRefs /\ [][NextRefs]_vars

---------------------------------------------------------------------------
(* SpecRouting: every facade operation, for the native currency and for X,    *)
(* with amounts of 0 and 3, from a genesis without balances                   *)

CurrenciesSlash(sc) ==
    \E cid \in sc.facade_cids :
        \E who \in FacadeWho(sc, cid), amount \in FacadeAmounts(sc, cid, sc.amounts) :
            Apply(currencies_slash(AtCall, cid, who, amount),
                  Call("currencies_slash", cid, who, "-", amount))

CurrenciesSetLock(sc) ==
    \E cid \in sc.facade_cids, who \in sc.lock_who, id \in sc.ids,
       amount \in sc.lock_amounts :
        Apply(Ok(currencies_set_lock(AtCall, id, cid, who, amount)),
              [Call("currencies_set_lock", cid, who, "-", amount) EXCEPT !.id = id])

CurrenciesExtendLock(sc) ==
    \E cid \in sc.facade_cids, who \in sc.lock_who, id \in sc.ids,
       amount \in sc.lock_amounts :
        Apply(Ok(currencies_extend_lock(AtCall, id, cid, who, amount)),
              [Call("currencies_extend_lock", cid, who, "-", amount) EXCEPT !.id = id])

CurrenciesRemoveLock(sc) ==
    \E cid \in sc.facade_cids, who \in sc.lock_who, id \in sc.ids :
        Apply(Ok(currencies_remove_lock(AtCall, id, cid, who)),
              [Call("currencies_remove_lock", cid, who, "-", 0) EXCEPT !.id = id])

CurrenciesUnreserve(sc) ==
    \E cid \in sc.facade_cids :
        \E who \in FacadeWho(sc, cid), value \in FacadeAmounts(sc, cid, sc.amounts) :
            Apply(currencies_unreserve(AtCall, cid, who, value),
                  Call("currencies_unreserve", cid, who, "-", value))

CurrenciesSlashReserved(sc) ==
    \E cid \in sc.facade_cids :
        \E who \in FacadeWho(sc, cid), value \in FacadeAmounts(sc, cid, sc.amounts) :
            Apply(currencies_slash_reserved(AtCall, cid, who, value),
                  Call("currencies_slash_reserved", cid, who, "-", value))

CurrenciesRepatriateReserved(sc) ==
    \E cid \in sc.facade_cids, beneficiary \in sc.who, status \in BalanceStatus :
        \E slashed \in FacadeWho(sc, cid), value \in FacadeAmounts(sc, cid, sc.amounts) :
            Apply(currencies_repatriate_reserved(AtCall, cid, slashed, beneficiary,
                                                 value, status),
                  [Call("currencies_repatriate_reserved", cid, slashed, beneficiary, value)
                      EXCEPT !.status = status])

CurrenciesQuery(sc) ==
    \E q \in FacadeQueries, cid \in sc.facade_cids, who \in sc.who :
        \E amount \in FacadeAmounts(sc, cid, sc.amounts) :
            Apply(currencies_query(AtCall, q, cid, who, amount),
                  Call(q, cid, who, "-", amount))

RoutingScope ==
    [cids |-> {"X"}, facade_cids |-> {NativeCurrencyId, "X"},
     who |-> {"alice", "bob"}, amounts |-> {0, 3}, by_amounts |-> {-3, 3},
     lock_who |-> {"alice"}, ids |-> {1}, lock_amounts |-> {2},
     native_who |-> {"alice"}, native_amounts |-> {0, 3}]

InitRouting ==
    /\ ExistentialDeposit = 2
    /\ Genesis(<<>>, NoNative)

NextRouting ==
    \/ CurrenciesTransfer(RoutingScope)
    \/ CurrenciesDeposit(RoutingScope)
    \/ CurrenciesWithdraw(RoutingScope)
    \/ CurrenciesUpdateBalance(RoutingScope)
    \/ CurrenciesSlash(RoutingScope)
    \/ CurrenciesSetLock(RoutingScope)
    \/ CurrenciesExtendLock(RoutingScope)
    \/ CurrenciesRemoveLock(RoutingScope)
    \/ CurrenciesReserve(RoutingScope)
    \/ CurrenciesUnreserve(RoutingScope)
    \/ CurrenciesSlashReserved(RoutingScope)
    \/ CurrenciesRepatriateReserved(RoutingScope)
    \/ CurrenciesQuery(RoutingScope)
    \/ Return

SpecRouting == InitRouting /\ [][NextRouting]_vars

---------------------------------------------------------------------------
(* SpecGenesis: the genesis build, one entry of config.endowed_accounts at a  *)
(* time, over lists of any length that may name an (account, currency) twice  *)

\* what the two build closures do with one entry: the issuance accumulates
\* the balance, the account's free balance is overwritten with it
genesis_entry(s, account_id, currency_id, initial_balance) ==
    [s EXCEPT !.TotalIssuance[currency_id] = @ + initial_balance,
              !.Accounts[currency_id][account_id].free = initial_balance]

\* the next entry of the list is loaded; checked_add(..).expect(..) stops the
\* build when the sum of a currency overflows
GenesisEntry(sc) ==
    \E account_id \in sc.who, currency_id \in sc.cids, initial_balance \in sc.amounts :
        /\ last.op \in {"none", "genesis"}
        /\ ~AddWraps(TotalIssuance[currency_id], initial_balance)
        /\ Accounts' = genesis_entry(Ledger, account_id, currency_id,
                                     initial_balance).Accounts
        /\ TotalIssuance' = genesis_entry(Ledger, account_id, currency_id,
                                          initial_balance).TotalIssuance
        /\ last' = Call("genesis", currency_id, account_id, "-", initial_balance)
        /\ UNCHANGED <<ExistentialDeposit, Locks, refs, native, dust, events, wrapped,
                       scheduler>>

InitGenesis ==
    /\ ExistentialDeposit \in Deposits
    /\ Genesis(<<>>, NoNative)

NextGenesis == GenesisEntry(EngineScope)

SpecGenesis == InitGenesis /\ [][NextGenesis]_vars

---------------------------------------------------------------------------
(* SpecIsolation: the engine on two currencies; alice and bob are the         *)
(* arguments of the calls, carol only holds what genesis gave her             *)

IsolationScope ==
    [cids |-> {"X", "Y"}, who |-> {"alice", "bob"}, amounts |-> {0, 2},
     by_amounts |-> {-2, 2}, lock_who |-> {"alice"}, ids |-> {1},
     lock_amounts |-> {2}]

InitIsolation ==
    /\ ExistentialDeposit = 2
    /\ \E cfg \in GenesisConfigs(AccountId, IsolationScope.cids, {2}) :
           DistinctKeys(cfg) /\ Genesis(cfg, NoNative)

NextIsolation == EngineNext(IsolationScope) \/ Return

SpecIsolation == InitIsolation /\ [][NextIsolation]_vars

---------------------------------------------------------------------------
(* SpecSchedule: the delayed dispatch scheduler over the blocks            *)
(* 1..MaxBlock with at most MaxDispatch dispatches scheduled               *)

ScheduleScope ==
    [origins |-> {"alice", "bob", Root},
     schedulers |-> {"alice", Root},
     calls |-> {"set_balance"},
     whens |-> {At(b) : b \in 0..MaxBlock} \cup {After(n) : n \in 0..1},
     blocks |-> 2..MaxBlock]

\* a call of the scheduler starts when none is returning; the ledger of the
\* currencies is not touched
ApplySchedule(r, call) ==
    /\ last = NoCall
    /\ scheduler' = r.s
    /\ events' = r.events
    /\ last' = [call EXCEPT !.res = r.res]
    /\ UNCHANGED <<ExistentialDeposit, Accounts, Locks, TotalIssuance, refs, native, dust,
                   wrapped>>

ScheduleDispatch(sc) ==
    \E origin \in sc.schedulers, call \in sc.calls, when \in sc.whens :
        /\ scheduler.next_id < MaxDispatch
        /\ ApplySchedule(schedule_dispatch(scheduler, origin, call, when),
                         [Call("schedule_dispatch", "-", origin, call, when.n)
                              EXCEPT !.status = when.kind, !.id = scheduler.next_id])

CancelDeplayedDispatch(sc) ==
    \E origin \in sc.origins, at \in sc.blocks, id \in DispatchId :
        ApplySchedule(cancel_deplayed_dispatch(scheduler, origin, at, id),
                      [Call("cancel_deplayed_dispatch", "-", origin, "-", at)
                           EXCEPT !.id = id])

\* the next block begins: frame_system moves the block number and
\* on_initialize runs for it
OnInitialize ==
    /\ scheduler.now < MaxBlock
    /\ LET now == scheduler.now + 1
           s == [scheduler EXCEPT !.now = now]
       IN \E picked \in Picked(s, now) :
              ApplySchedule(on_initialize(s, now, picked),
                            Call("on_initialize", "-", "-", "-", now))

InitSchedule ==
    /\ ExistentialDeposit = 2
    /\ Genesis(<<>>, NoNative)

NextSchedule ==
    \/ ScheduleDispatch(ScheduleScope)
    \/ CancelDeplayedDispatch(ScheduleScope)
    \/ OnInitialize
    \/ Return

SpecSchedule == InitSchedule /\ [][NextSchedule]_vars

---------------------------------------------------------------------------
(* Properties *)

RECURSIVE SumBalances(_, _)
SumBalances(accs, S) ==
    IF S = {} THEN 0
    ELSE LET a == CHOOSE x \in S : TRUE
         IN accs[a].free + accs[a].reserved + SumBalances(accs, S \ {a})

\* C1 (I1/P1): in every state reached from a genesis with distinct
\* (account, currency) entries, the total issuance of each currency equals
\* the sum over all accounts of free + reserved
IssuanceConservation ==
    \A cid \in CurrencyId : TotalIssuance[cid] = SumBalances(Accounts[cid], AccountId)

\* a withdraw whose remainder of 1 went to the dust sink, leaving balances behind
IssuanceConservationWitness ==
    /\ last.op = "withdraw" /\ last.res = "Ok" /\ last.amount > 0
    /\ dust = <<1>>
    /\ TotalIssuance["X"] > 0

\* C2 (I2/P2), as claimed: every (currency, account) with a nonzero total
\* balance holds at least the existential deposit
ExistentialDepositInvariant ==
    \A cid \in CurrencyId, a \in AccountId :
        LET t == Accounts[cid][a].free + Accounts[cid][a].reserved
        IN t > 0 => t >= ExistentialDeposit

HasLock(cid, a) == <<cid, a>> \in DOMAIN Locks /\ Locks[<<cid, a>>] # <<>>

IsDeposit == last.op = "deposit" \/ (last.op = "update_balance" /\ last.amount > 0)

IsDebit ==
    /\ last.res = "Ok"
    /\ \/ last.op \in {"withdraw", "reserve"} /\ last.amount > 0
       \/ last.op = "update_balance" /\ last.amount < 0
       \/ last.op \in {"transfer", "tokens_transfer", "transfer_all"}
          /\ last.amount > 0 /\ last.who # last.to

StoredLocks(cid, a) == IF <<cid, a>> \in DOMAIN Locks THEN Locks[<<cid, a>>] ELSE <<>>

MaxAmount(lks) ==
    IF lks = <<>> THEN 0
    ELSE CHOOSE m \in {lks[i].amount : i \in 1..Len(lks)} :
             \A i \in 1..Len(lks) : lks[i].amount <= m

\* C4 (P3/I5/I6): the locks of every (currency, account) have pairwise-distinct
\* ids, and frozen is the largest lock amount (0 without locks)
LockInvariants ==
    \A cid \in CurrencyId, a \in AccountId :
        LET lks == StoredLocks(cid, a)
        IN /\ \A i, j \in 1..Len(lks) : lks[i].id = lks[j].id => i = j
           /\ Accounts[cid][a].frozen = MaxAmount(lks)

\* two locks on one account, the larger one first, after a set_lock that
\* lowered the second
LockInvariantsWitness ==
    /\ last.op = "set_lock"
    /\ Len(StoredLocks("X", "alice")) = 2
    /\ StoredLocks("X", "alice")[1].amount > StoredLocks("X", "alice")[2].amount
    /\ StoredLocks("X", "alice")[2].id = last.id
    /\ Accounts["X"]["alice"].frozen = StoredLocks("X", "alice")[1].amount

AtomicOps ==
    {"transfer", "deposit", "withdraw", "reserve", "update_balance",
     "currencies_transfer", "currencies_deposit", "currencies_withdraw",
     "currencies_reserve", "currencies_update_balance"}

\* C5 (atomicity): a transfer, deposit, withdraw, reserve or update_balance, on
\* the engine or through the facade, that returns an error leaves Accounts,
\* Locks, TotalIssuance, the dust sink, the reference counters and the event
\* log as they were
FailedCallChangesNothing ==
    [][(last'.op \in AtomicOps /\ last'.res # "Ok") =>
          /\ Accounts' = Accounts
          /\ Locks' = Locks
          /\ TotalIssuance' = TotalIssuance
          /\ refs' = refs
          /\ dust' = dust
          /\ events' = events]_vars

\* a facade transfer of X that passed the withdraw check and failed on the
\* destination's existential deposit
FailedCallChangesNothingWitness ==
    /\ last.op = "currencies_transfer" /\ last.cid = "X"
    /\ last.res = "ExistentialDeposit"

\* what the contract of ensure_can_withdraw asks for
WithdrawCheck(free, frozen, amount) ==
    IF amount = 0 \/ (free >= amount /\ free - amount >= frozen) THEN "Ok"
    ELSE IF free < amount THEN "BalanceTooLow"
    ELSE "LiquidityRestrictions"

\* C6: ensure_can_withdraw changes no state and returns Ok iff amount = 0 or
\* free - amount >= frozen without underflow, else BalanceTooLow when
\* free < amount and LiquidityRestrictions otherwise; with free = 100 and a
\* lock of 80 it admits 20 and rejects 21
EnsureCanWithdrawContract ==
    [][last'.op = "ensure_can_withdraw" =>
          /\ UNCHANGED <<Accounts, Locks, TotalIssuance, refs, native>>
          /\ dust' = <<>> /\ events' = <<>>
          /\ last'.res = WithdrawCheck(Accounts[last'.cid][last'.who].free,
                                       Accounts[last'.cid][last'.who].frozen,
                                       last'.amount)
          /\ ensure_can_withdraw_data([free |-> 100, reserved |-> 0, frozen |-> 80], 20)
                 = "Ok"
          /\ ensure_can_withdraw_data([free |-> 100, reserved |-> 0, frozen |-> 80], 21)
                 = "LiquidityRestrictions"]_vars

\* a check refused by a lock although the free balance covers the amount, and
\* a check admitted exactly at the frozen floor
EnsureCanWithdrawWitness ==
    /\ last.op = "ensure_can_withdraw"
    /\ Accounts[last.cid][last.who].frozen > 0
    /\ \/ /\ last.res = "LiquidityRestrictions"
          /\ Accounts[last.cid][last.who].free >= last.amount
       \/ /\ last.res = "Ok" /\ last.amount > 0
          /\ Accounts[last.cid][last.who].free - last.amount
                 = Accounts[last.cid][last.who].frozen

IsTransfer(l) == l.op = "transfer" /\ l.amount > 0 /\ l.who # l.to

\* C7, as claimed: a successful transfer of amount > 0 between two accounts
\* takes exactly amount from the source, gives exactly amount to the
\* destination and leaves the issuance unchanged
TransferMovesExactly ==
    [][(IsTransfer(last') /\ last'.res = "Ok") =>
          LET cid == last'.cid
          IN /\ Accounts'[cid][last'.who].free
                    = Accounts[cid][last'.who].free - last'.amount
             /\ Accounts'[cid][last'.to].free
                    = Accounts[cid][last'.to].free + last'.amount
             /\ TotalIssuance'[cid] = TotalIssuance[cid]]_vars

\* C7, amended: the destination gains exactly amount; the source loses exactly
\* amount and the issuance is unchanged when the source keeps at least the
\* existential deposit, otherwise the source's free balance becomes 0 and the
\* remainder goes to the dust sink and out of the issuance
TransferEffect ==
    [][(IsTransfer(last') /\ last'.res = "Ok") =>
          LET cid == last'.cid
              rest == Accounts[cid][last'.who].free - last'.amount
          IN /\ Accounts'[cid][last'.to].free
                    = Accounts[cid][last'.to].free + last'.amount
             /\ rest >= 0
             /\ IF rest >= ExistentialDeposit
                THEN /\ Accounts'[cid][last'.who].free = rest
                     /\ TotalIssuance'[cid] = TotalIssuance[cid]
                     /\ dust' = <<>>
                ELSE /\ Accounts'[cid][last'.who].free = 0
                     /\ TotalIssuance'[cid] = TotalIssuance[cid] - rest
                     /\ dust' = <<rest>>]_vars

\* a transfer that left the source at or above the existential deposit
TransferEffectWitness ==
    /\ IsTransfer(last) /\ last.res = "Ok"
    /\ dust = <<>>
    /\ Accounts[last.cid][last.who].free >= ExistentialDeposit

\* C8: a transfer of amount > 0 between two accounts fails with
\* ExistentialDeposit exactly when the withdraw check passes and
\* to.free + amount < ED (free only, whatever to holds in reserve); when the
\* withdraw check fails, its error is the one returned
TransferExistentialDeposit ==
    [][IsTransfer(last') =>
          LET from == Accounts[last'.cid][last'.who]
              to == Accounts[last'.cid][last'.to]
              chk == WithdrawCheck(from.free, from.frozen, last'.amount)
          IN /\ (last'.res = "ExistentialDeposit") <=>
                    (chk = "Ok" /\ to.free + last'.amount < ExistentialDeposit)
             /\ chk # "Ok" => last'.res = chk]_vars

\* a transfer refused although the destination's reserved balance alone
\* reaches the existential deposit
TransferExistentialDepositWitness ==
    /\ IsTransfer(last) /\ last.res = "ExistentialDeposit"
    /\ Accounts[last.cid][last.to].reserved >= ExistentialDeposit

\* C9, as claimed: a deposit of amount > 0 fails with TotalIssuanceOverflow iff
\* the issuance would pass the Balance maximum; otherwise, unless free = 0 and
\* amount < ED, the issuance and the free balance both grow by exactly amount
DepositGrowsByAmount ==
    [][(last'.op = "deposit" /\ last'.amount > 0) =>
          LET cid == last'.cid
              free == Accounts[cid][last'.who].free
          IN IF TotalIssuance[cid] + last'.amount > MaxBalance
             THEN last'.res = "TotalIssuanceOverflow"
             ELSE /\ last'.res = "Ok"
                  /\ ~(free = 0 /\ last'.amount < ExistentialDeposit) =>
                        /\ TotalIssuance'[cid] = TotalIssuance[cid] + last'.amount
                        /\ Accounts'[cid][last'.who].free = free + last'.amount]_vars

\* C9, amended: as claimed when free + amount reaches the existential deposit
\* (always so once free is 0 or at least ED); a free balance below ED that the
\* deposit does not lift to ED is removed: free becomes 0 and free + amount
\* goes to the dust sink, the issuance shrinking by the old free balance
DepositContract ==
    [][(last'.op = "deposit" /\ last'.amount > 0) =>
          LET cid == last'.cid
              free == Accounts[cid][last'.who].free
          IN IF TotalIssuance[cid] + last'.amount > MaxBalance
             THEN last'.res = "TotalIssuanceOverflow"
             ELSE /\ last'.res = "Ok"
                  /\ ~(free = 0 /\ last'.amount < ExistentialDeposit) =>
                        IF free + last'.amount >= ExistentialDeposit
                        THEN /\ TotalIssuance'[cid] = TotalIssuance[cid] + last'.amount
                             /\ Accounts'[cid][last'.who].free = free + last'.amount
                        ELSE /\ TotalIssuance'[cid] = TotalIssuance[cid] - free
                             /\ Accounts'[cid][last'.who].free = 0
                             /\ dust' = <<free + last'.amount>>]_vars

\* a deposit that took effect on an account whose lock exceeds its free balance
DepositContractWitness ==
    /\ last.op = "deposit" /\ last.res = "Ok" /\ last.amount > 0
    /\ dust = <<>>
    /\ Accounts[last.cid][last.who].free >= last.amount
    /\ Accounts[last.cid][last.who].frozen > Accounts[last.cid][last.who].free

IsSmallDeposit(l) ==
    /\ l.op \in {"deposit", "currencies_deposit"}
    /\ l.cid # NativeCurrencyId
    /\ 0 < l.amount /\ l.amount < ExistentialDeposit

\* C10, as claimed: a deposit of 0 < amount < ED into an account with free = 0
\* returns Ok and changes nothing in the engine; through the facade it
\* returns Ok and emits one Deposited event
SmallDepositIsOk ==
    [][(IsSmallDeposit(last') /\ Accounts[last'.cid][last'.who].free = 0) =>
          /\ last'.res = "Ok"
          /\ Accounts' = Accounts /\ TotalIssuance' = TotalIssuance /\ dust' = <<>>
          /\ events' = IF last'.op = "deposit" THEN <<>>
                       ELSE <<CurrenciesEvent("Deposited", last'.cid, last'.who,
                                              last'.who, last'.amount)>>]_vars

\* C10, amended: the same, provided TotalIssuance + amount does not pass the
\* Balance maximum; if it does, the call fails with TotalIssuanceOverflow and
\* emits nothing
SmallDepositIgnored ==
    [][(IsSmallDeposit(last') /\ Accounts[last'.cid][last'.who].free = 0) =>
          /\ Accounts' = Accounts /\ TotalIssuance' = TotalIssuance /\ dust' = <<>>
          /\ IF TotalIssuance[last'.cid] + last'.amount > MaxBalance
             THEN last'.res = "TotalIssuanceOverflow" /\ events' = <<>>
             ELSE /\ last'.res = "Ok"
                  /\ events' = IF last'.op = "deposit" THEN <<>>
                               ELSE <<CurrenciesEvent("Deposited", last'.cid,
                                          last'.who, last'.who, last'.amount)>>]_vars

\* a facade deposit below the existential deposit into an empty account:
\* Ok, one Deposited event, no balance
SmallDepositIgnoredWitness ==
    /\ IsSmallDeposit(last) /\ last.op = "currencies_deposit" /\ last.res = "Ok"
    /\ Accounts[last.cid][last.who].free = 0
    /\ Len(events) = 1 /\ events[1].kind = "Deposited"

---------------------------------------------------------------------------
(* Withdraw, slash and the reservable operations *)

\* C11: a successful withdraw of amount > 0 takes exactly amount from the free
\* balance and from the issuance when free - amount >= ED; otherwise free
\* becomes 0, the dust sink receives free - amount and the issuance falls by
\* amount plus that dust
WithdrawEffect ==
    [][(last'.op = "withdraw" /\ last'.amount > 0 /\ last'.res = "Ok") =>
          LET cid == last'.cid
              rest == Accounts[cid][last'.who].free - last'.amount
          IN /\ rest >= 0
             /\ Accounts'[cid][last'.who].reserved = Accounts[cid][last'.who].reserved
             /\ IF rest >= ExistentialDeposit
                THEN /\ Accounts'[cid][last'.who].free = rest
                     /\ TotalIssuance'[cid] = TotalIssuance[cid] - last'.amount
                     /\ dust' = <<>>
                ELSE /\ Accounts'[cid][last'.who].free = 0
                     /\ TotalIssuance'[cid] = TotalIssuance[cid] - last'.amount - rest
                     /\ dust' = <<rest>>]_vars

\* the spec's scenario: ED = 2, a withdraw of 2 that left 1 behind, removed as dust
WithdrawEffectWitness ==
    /\ last.op = "withdraw" /\ last.res = "Ok" /\ last.amount = 2
    /\ ExistentialDeposit = 2
    /\ dust = <<1>>
    /\ Accounts[last.cid][last.who].free = 0

\* what an account holds: free + reserved, unsaturated
Holds(accs, cid, a) == accs[cid][a].free + accs[cid][a].reserved

\* C12, as claimed: slash returning leftover reduces the account's
\* free + reserved by exactly amount - leftover, and the issuance by the same
SlashSpill ==
    [][last'.op = "slash" =>
          LET cid == last'.cid
              taken == last'.amount - last'.ret
          IN /\ Holds(Accounts, cid, last'.who) - Holds(Accounts', cid, last'.who) = taken
             /\ TotalIssuance[cid] - TotalIssuance'[cid] = taken]_vars

\* the free remainder a slash removes as dust: free - amount when that is
\* positive and below the existential deposit
SlashDust(free, amount) ==
    IF 0 < free - amount /\ free - amount < ExistentialDeposit /\ amount > 0
    THEN free - amount ELSE 0

\* C12, amended: slash returning leftover reduces the account's free + reserved
\* and the issuance each by exactly amount - leftover plus the free remainder
\* removed as dust
SlashSpillWithDust ==
    [][last'.op = "slash" =>
          LET cid == last'.cid
              taken == last'.amount - last'.ret
              d == SlashDust(Accounts[cid][last'.who].free, last'.amount)
          IN /\ Holds(Accounts, cid, last'.who) - Holds(Accounts', cid, last'.who)
                    = taken + d
             /\ TotalIssuance[cid] - TotalIssuance'[cid] = taken + d
             /\ d > 0 => dust' = <<d>>
             /\ d = 0 => \A i \in 1..Len(dust') : dust'[i] = 0]_vars

\* a slash that left a free remainder below the existential deposit, removed as dust
SlashSpillWithDustWitness ==
    /\ last.op = "slash" /\ last.amount > 0
    /\ Len(dust) = 1 /\ dust[1] > 0
    /\ Accounts[last.cid][last.who].free = 0

\* slash on an account holding the given balances, whatever else the ledger holds
SlashOn(free, reserved, amount) ==
    slash([AtCall EXCEPT !.Accounts["X"]["alice"] =
                             [free |-> free, reserved |-> reserved, frozen |-> 0]],
          "X", "alice", amount)

\* C13: slash never fails, whatever the locks; it returns
\* amount - min(amount, free + reserved); it takes from free first and reduces
\* reserved only when amount > free, by min(reserved, amount - free); with
\* free = 5, reserved = 10, slash 8 returns 0 and leaves free 0, reserved 7
SlashContract ==
    [][last'.op = "slash" =>
          LET cid == last'.cid
              old == Accounts[cid][last'.who]
              new == Accounts'[cid][last'.who]
              amount == last'.amount
          IN /\ last'.res = "Ok"
             /\ last'.ret = amount - Min(amount, old.free + old.reserved)
             /\ new.reserved = old.reserved -
                    (IF amount > old.free THEN Min(old.reserved, amount - old.free) ELSE 0)
             /\ new.free \in {old.free - Min(old.free, amount), 0}
             /\ amount > old.free => new.free = 0
             /\ new.frozen = old.frozen /\ Locks' = Locks
             /\ SlashOn(5, 10, 8).ret = 0
             /\ SlashOn(5, 10, 8).s.Accounts["X"]["alice"].free = 0
             /\ SlashOn(5, 10, 8).s.Accounts["X"]["alice"].reserved = 7]_vars

\* a slash under a lock that took the whole amount and left free at 0, below
\* frozen, on an account that holds a reserved balance
SlashContractWitness ==
    /\ last.op = "slash" /\ last.amount > 0 /\ last.ret = 0
    /\ Accounts[last.cid][last.who].frozen > 0
    /\ Accounts[last.cid][last.who].free = 0
    /\ Accounts[last.cid][last.who].reserved > 0

\* the account after unreserve(cid, who, v) is applied to the ledger a call left
ThenUnreserve(l) == unreserve(AtCall', l.cid, l.who, l.amount)

\* C14, as claimed: for any v <= free, reserve succeeds and a following
\* unreserve of v returns 0 and restores the free and reserved balances
ReserveRoundTrip ==
    [][(last'.op = "reserve" /\ last'.amount <= Accounts[last'.cid][last'.who].free) =>
          LET old == Accounts[last'.cid][last'.who]
              r == ThenUnreserve(last')
          IN /\ last'.res = "Ok"
             /\ r.ret = 0
             /\ r.s.Accounts[last'.cid][last'.who].free = old.free
             /\ r.s.Accounts[last'.cid][last'.who].reserved = old.reserved]_vars

\* C14, amended: the round trip restores the balances when free >= ED,
\* v <= free - frozen and free - v is 0 or at least ED (or v = 0); a reserve
\* that would take free below frozen fails with LiquidityRestrictions; one that
\* leaves 0 < free - v < ED loses that remainder as dust, and the round trip
\* ends with reserved restored and free = v (0 if v < ED)
ReserveRoundTripAboveDeposit ==
    [][(last'.op = "reserve" /\ last'.amount <= Accounts[last'.cid][last'.who].free) =>
          LET old == Accounts[last'.cid][last'.who]
              v == last'.amount
              rest == old.free - v
              r == ThenUnreserve(last')
              new == r.s.Accounts[last'.cid][last'.who]
          IN IF v = 0
             THEN last'.res = "Ok" /\ r.ret = 0 /\ new = old
             ELSE IF rest < old.frozen
             THEN last'.res = "LiquidityRestrictions" /\ Accounts' = Accounts
             ELSE /\ last'.res = "Ok"
                  /\ r.ret = 0
                  /\ new.reserved = old.reserved
                  /\ IF old.free >= ExistentialDeposit
                        /\ (rest = 0 \/ rest >= ExistentialDeposit)
                     THEN new.free = old.free
                     ELSE new.free = (IF v >= ExistentialDeposit THEN v ELSE 0)]_vars

\* a reserve of v > 0 that left at least the existential deposit free, on an
\* account that already held a reserved balance
ReserveRoundTripWitness ==
    /\ last.op = "reserve" /\ last.res = "Ok" /\ last.amount > 0
    /\ dust = <<>>
    /\ Accounts[last.cid][last.who].free >= ExistentialDeposit
    /\ Accounts[last.cid][last.who].reserved > last.amount

IsReserve(l) == l.op = "reserve" /\ l.amount > 0

\* C15, as claimed: reserve of v > 0 succeeds iff the withdraw check succeeds,
\* and on success free falls by exactly v, reserved grows by exactly v and the
\* issuance is unchanged
ReserveMovesExactly ==
    [][IsReserve(last') =>
          LET cid == last'.cid
              old == Accounts[cid][last'.who]
              new == Accounts'[cid][last'.who]
          IN /\ last'.res = WithdrawCheck(old.free, old.frozen, last'.amount)
             /\ last'.res = "Ok" =>
                    /\ new.free = old.free - last'.amount
                    /\ new.reserved = old.reserved + last'.amount
                    /\ TotalIssuance'[cid] = TotalIssuance[cid]]_vars

\* C15, amended: on success reserved grows by exactly v; free falls by exactly
\* v and the issuance is unchanged when free - v >= ED, otherwise free becomes
\* 0 and free - v goes to the dust sink and out of the issuance
ReserveEffect ==
    [][IsReserve(last') =>
          LET cid == last'.cid
              old == Accounts[cid][last'.who]
              new == Accounts'[cid][last'.who]
              rest == old.free - last'.amount
          IN /\ last'.res = WithdrawCheck(old.free, old.frozen, last'.amount)
             /\ last'.res = "Ok" =>
                    /\ new.reserved = old.reserved + last'.amount
                    /\ IF rest >= ExistentialDeposit
                       THEN /\ new.free = rest
                            /\ TotalIssuance'[cid] = TotalIssuance[cid]
                            /\ dust' = <<>>
                       ELSE /\ new.free = 0
                            /\ TotalIssuance'[cid] = TotalIssuance[cid] - rest
                            /\ dust' = <<rest>>]_vars

\* a reserve whose remainder below the existential deposit was removed as dust
ReserveEffectWitness ==
    /\ IsReserve(last) /\ last.res = "Ok"
    /\ Len(dust) = 1 /\ dust[1] > 0
    /\ Accounts[last.cid][last.who].free = 0
    /\ Accounts[last.cid][last.who].reserved >= last.amount

\* C16, as claimed: unreserve never fails and, with moved = min(reserved, v),
\* takes moved from reserved, adds moved to free and returns v - moved
UnreserveMovesExactly ==
    [][last'.op = "unreserve" =>
          LET cid == last'.cid
              old == Accounts[cid][last'.who]
              new == Accounts'[cid][last'.who]
              moved == Min(old.reserved, last'.amount)
          IN /\ last'.res = "Ok"
             /\ last'.ret = last'.amount - moved
             /\ new.reserved = old.reserved - moved
             /\ new.free = old.free + moved]_vars

\* C16, amended: the same when free + moved >= ED (or v = 0); otherwise free
\* becomes 0 and free + moved goes to the dust sink and out of the issuance
UnreserveEffect ==
    [][last'.op = "unreserve" =>
          LET cid == last'.cid
              old == Accounts[cid][last'.who]
              new == Accounts'[cid][last'.who]
              moved == Min(old.reserved, last'.amount)
          IN /\ last'.res = "Ok"
             /\ last'.ret = last'.amount - moved
             /\ new.reserved = old.reserved - moved
             /\ IF last'.amount = 0 \/ old.free + moved >= ExistentialDeposit
                THEN /\ new.free = old.free + moved
                     /\ TotalIssuance'[cid] = TotalIssuance[cid]
                     /\ dust' = <<>>
                ELSE /\ new.free = 0
                     /\ TotalIssuance'[cid] = TotalIssuance[cid] - (old.free + moved)
                     /\ dust' = <<old.free + moved>>]_vars

\* an unreserve of more than was reserved: part of the value moved to free,
\* the rest returned
UnreserveEffectWitness ==
    /\ last.op = "unreserve" /\ last.ret > 0 /\ last.ret < last.amount
    /\ Accounts[last.cid][last.who].reserved = 0
    /\ Accounts[last.cid][last.who].free >= ExistentialDeposit

\* C17: slash_reserved never fails and, with burned = min(reserved, v), takes
\* burned from reserved and from the issuance, leaves free as it was and
\* returns v - burned
SlashReservedEffect ==
    [][last'.op = "slash_reserved" =>
          LET cid == last'.cid
              old == Accounts[cid][last'.who]
              new == Accounts'[cid][last'.who]
              burned == Min(old.reserved, last'.amount)
          IN /\ last'.res = "Ok"
             /\ last'.ret = last'.amount - burned
             /\ new.reserved = old.reserved - burned
             /\ TotalIssuance'[cid] = TotalIssuance[cid] - burned
             /\ new.free = old.free
             /\ dust' = <<>>]_vars

\* a slash_reserved of more than was reserved, next to a free balance
SlashReservedEffectWitness ==
    /\ last.op = "slash_reserved" /\ last.ret > 0 /\ last.ret < last.amount
    /\ Accounts[last.cid][last.who].reserved = 0
    /\ Accounts[last.cid][last.who].free > 0

IsRepatriate(l) == l.op = "repatriate_reserved" /\ l.amount > 0 /\ l.who # l.to

\* C18, as claimed: repatriate_reserved of v > 0 between two accounts, with
\* actual = min(from.reserved, v), takes actual from from.reserved, adds
\* exactly actual to to.free (Free) or to.reserved (Reserved), returns
\* v - actual and leaves the issuance unchanged, with no existential-deposit
\* enforcement on the destination
RepatriateMovesExactly ==
    [][IsRepatriate(last') =>
          LET cid == last'.cid
              from == Accounts[cid][last'.who]
              to == Accounts[cid][last'.to]
              actual == Min(from.reserved, last'.amount)
          IN /\ last'.res = "Ok"
             /\ last'.ret = last'.amount - actual
             /\ Accounts'[cid][last'.who].reserved = from.reserved - actual
             /\ Accounts'[cid][last'.to] =
                    IF last'.status = "Free"
                    THEN [to EXCEPT !.free = to.free + actual]
                    ELSE [to EXCEPT !.reserved = to.reserved + actual]
             /\ TotalIssuance'[cid] = TotalIssuance[cid]]_vars

\* C18, amended: the same for status = Reserved, and for status = Free when
\* to.free + actual >= ED; for status = Free with to.free + actual < ED the
\* destination's free balance becomes 0 and to.free + actual goes to the dust
\* sink and out of the issuance; the call never fails
RepatriateEffect ==
    [][IsRepatriate(last') =>
          LET cid == last'.cid
              from == Accounts[cid][last'.who]
              to == Accounts[cid][last'.to]
              actual == Min(from.reserved, last'.amount)
          IN /\ last'.res = "Ok"
             /\ last'.ret = last'.amount - actual
             /\ Accounts'[cid][last'.who] = [from EXCEPT !.reserved = from.reserved - actual]
             /\ IF last'.status = "Reserved"
                THEN /\ Accounts'[cid][last'.to] =
                            [to EXCEPT !.reserved = to.reserved + actual]
                     /\ TotalIssuance'[cid] = TotalIssuance[cid]
                     /\ dust' = <<>>
                ELSE IF to.free + actual >= ExistentialDeposit
                THEN /\ Accounts'[cid][last'.to] = [to EXCEPT !.free = to.free + actual]
                     /\ TotalIssuance'[cid] = TotalIssuance[cid]
                     /\ dust' = <<>>
                ELSE /\ Accounts'[cid][last'.to] = [to EXCEPT !.free = 0]
                     /\ TotalIssuance'[cid] = TotalIssuance[cid] - (to.free + actual)
                     /\ dust' = <<to.free + actual>>]_vars

\* a repatriation into the free balance of an empty account that landed below
\* the existential deposit and was removed as dust
RepatriateEffectWitness ==
    /\ IsRepatriate(last) /\ last.status = "Free"
    /\ Len(dust) = 1 /\ dust[1] > 0 /\ last.ret < last.amount
    /\ Accounts[last.cid][last.to] = DefaultAccountData

IsSelfRepatriate(l) == l.op = "repatriate_reserved" /\ l.amount > 0 /\ l.who = l.to

\* C19: repatriate_reserved of v > 0 from an account to itself has, for
\* status = Free, exactly the effect and return value of unreserve(cid, x, v);
\* for status = Reserved it changes no state and returns v - min(v, reserved)
SelfRepatriate ==
    [][IsSelfRepatriate(last') =>
          LET cid == last'.cid
              x == last'.who
              v == last'.amount
              u == unreserve(AtCall, cid, x, v)
          IN /\ last'.res = "Ok"
             /\ IF last'.status = "Free"
                THEN /\ last'.ret = u.ret
                     /\ Accounts' = u.s.Accounts
                     /\ TotalIssuance' = u.s.TotalIssuance
                     /\ Locks' = u.s.Locks
                     /\ refs' = u.s.refs
                     /\ dust' = u.s.dust
                     /\ events' = u.s.events
                ELSE /\ last'.ret = v - Min(v, Accounts[cid][x].reserved)
                     /\ UNCHANGED <<Accounts, TotalIssuance, Locks, refs, native>>
                     /\ dust' = <<>> /\ events' = <<>>]_vars

\* a repatriation to oneself with status Free that moved a reserved amount
\* into the free balance
SelfRepatriateWitness ==
    /\ IsSelfRepatriate(last) /\ last.status = "Free"
    /\ last.ret < last.amount
    /\ Accounts[last.cid][last.who].free >= ExistentialDeposit
    /\ dust = <<>>

---------------------------------------------------------------------------
(* Lock list *)

LocksOf(lks, cid, a) == IF <<cid, a>> \in DOMAIN lks THEN lks[<<cid, a>>] ELSE <<>>

\* the positions of the entries of lks that carry the id
Positions(lks, id) == {i \in 1..Len(lks) : lks[i].id = id}

\* C20: set_lock and extend_lock with amount = 0 change nothing; with
\* amount > 0 the resulting list holds exactly one entry for the id, with
\* `amount` after set_lock and max(previous, amount) after extend_lock, in the
\* place of the previous entry, or appended last if there was none; every other
\* entry keeps its amount and position
LockListUpdate ==
    [][last'.op \in {"set_lock", "extend_lock"} =>
          LET cid == last'.cid
              id == last'.id
              amount == last'.amount
              old == LocksOf(Locks, cid, last'.who)
              new == LocksOf(Locks', cid, last'.who)
              at == Positions(old, id)
          IN IF amount = 0
             THEN UNCHANGED <<Accounts, Locks, TotalIssuance, refs>>
             ELSE /\ Cardinality(Positions(new, id)) = 1
                  /\ IF at = {}
                     THEN new = Append(old, [id |-> id, amount |-> amount])
                     ELSE /\ Len(new) = Len(old)
                          /\ \A i \in 1..Len(old) :
                                 IF i \in at
                                 THEN new[i] =
                                        [id |-> id,
                                         amount |-> IF last'.op = "set_lock" THEN amount
                                                    ELSE Max(old[i].amount, amount)]
                                 ELSE new[i] = old[i]]_vars

\* a set_lock that replaced the first of two locks in place, with an amount
\* below the other lock's
LockListUpdateWitness ==
    /\ last.op = "set_lock"
    /\ Len(LocksOf(Locks, last.cid, last.who)) = 2
    /\ LocksOf(Locks, last.cid, last.who)[1] = [id |-> last.id, amount |-> last.amount]
    /\ LocksOf(Locks, last.cid, last.who)[2].amount > last.amount

---------------------------------------------------------------------------
(* Lock reference counting *)

\* the currencies in which an account has a stored lock list
LockedIn(lks, a) == {cid \in CurrencyId : <<cid, a>> \in DOMAIN lks}

\* a lock list is stored iff it is non-empty, and each account holds one
\* reference per currency in which it has a lock
RefsMatchLocks ==
    /\ \A k \in DOMAIN Locks : Locks[k] # <<>>
    /\ \A a \in AccountId : refs[a] = Cardinality(LockedIn(Locks, a))

\* C21: Locks[cid, who] is stored iff non-empty; the reference counter of who
\* goes up by one exactly when set_lock/extend_lock takes the list from absent
\* to non-empty and down by one exactly when remove_lock takes it from
\* non-empty to absent, so it equals the number of currencies in which who has
\* a lock; a repeated set_lock and a remove_lock of an absent id leave it alone
LockReferenceCounting ==
    /\ RefsMatchLocks
    /\ [][/\ RefsMatchLocks'
          /\ \A a \in AccountId :
                LET was == \E cid \in CurrencyId : /\ a = last'.who /\ cid = last'.cid
                                                   /\ <<cid, a>> \in DOMAIN Locks
                    is == \E cid \in CurrencyId : /\ a = last'.who /\ cid = last'.cid
                                                  /\ <<cid, a>> \in DOMAIN Locks'
                    created == last'.op \in {"set_lock", "extend_lock"} /\ ~was /\ is
                    dropped == last'.op = "remove_lock" /\ was /\ ~is
                IN refs'[a] = refs[a] + (IF created THEN 1 ELSE 0)
                                      - (IF dropped THEN 1 ELSE 0)]_vars

\* an account that holds locks in two currencies, two of them in the currency
\* of the last set_lock, and two references
LockReferenceCountingWitness ==
    /\ last.op = "set_lock"
    /\ refs[last.who] = 2
    /\ Len(LocksOf(Locks, last.cid, last.who)) = 2

---------------------------------------------------------------------------
(* The facade *)

FacadeEventOps ==
    {"currencies_transfer", "currencies_deposit", "currencies_withdraw",
     "currencies_update_balance"}

\* the event a facade call deposits when it succeeds
FacadeEvent(l) ==
    CASE l.op = "currencies_transfer" ->
             CurrenciesEvent("Transferred", l.cid, l.who, l.to, l.amount)
      [] l.op = "currencies_deposit" ->
             CurrenciesEvent("Deposited", l.cid, l.who, l.who, l.amount)
      [] l.op = "currencies_withdraw" ->
             CurrenciesEvent("Withdrawn", l.cid, l.who, l.who, l.amount)
      [] l.op = "currencies_update_balance" ->
             CurrenciesEvent("BalanceUpdated", l.cid, l.who, l.who, l.amount)

\* the provider operation a facade call stands for, applied to the ledger the
\* call found: the native adapter for the native currency, the engine otherwise
Delegate(l) ==
    LET nat == l.cid = NativeCurrencyId
    IN CASE l.op = "currencies_transfer" ->
                IF nat THEN adapter_transfer(AtCall, l.who, l.to, l.amount)
                ELSE transfer(AtCall, l.cid, l.who, l.to, l.amount)
         [] l.op = "currencies_deposit" ->
                IF nat THEN adapter_deposit(AtCall, l.who, l.amount)
                ELSE deposit(AtCall, l.cid, l.who, l.amount)
         [] l.op = "currencies_withdraw" ->
                IF nat THEN adapter_withdraw(AtCall, l.who, l.amount)
                ELSE withdraw(AtCall, l.cid, l.who, l.amount)
         [] l.op = "currencies_update_balance" ->
                IF nat THEN adapter_update_balance(AtCall, l.who, l.amount)
                ELSE update_balance(AtCall, l.cid, l.who, l.amount)
         [] l.op = "currencies_reserve" ->
                IF nat THEN adapter_reserve(AtCall, l.who, l.amount)
                ELSE reserve(AtCall, l.cid, l.who, l.amount)

\* C22: a successful facade transfer, deposit, withdraw or update_balance with
\* a non-zero amount leaves exactly one facade event of its kind, with the
\* call's currency, accounts and amount, appended to the ledger the delegate
\* left; a failing call leaves none
FacadeEvents ==
    [][(last'.op \in FacadeEventOps /\ last'.amount # 0) =>
          IF last'.res = "Ok"
          THEN /\ events' = <<FacadeEvent(last')>>
               /\ Delegate(last').res = "Ok"
               /\ Ledger' = deposit_event(Delegate(last').s, FacadeEvent(last'))
          ELSE /\ events' = <<>>
               /\ Ledger' = AtCall]_vars

\* a facade update_balance that withdrew from an engine account and left one
\* BalanceUpdated event with the signed amount
FacadeEventsWitness ==
    /\ last.op = "currencies_update_balance" /\ last.res = "Ok"
    /\ last.amount < 0 /\ last.cid # NativeCurrencyId
    /\ events = <<CurrenciesEvent("BalanceUpdated", last.cid, last.who, last.who,
                                  last.amount)>>

TransferOps ==
    {"transfer", "currencies_transfer", "transfer_native_currency",
     "tokens_transfer", "transfer_all"}

IsSelfTransfer(l) == l.op \in TransferOps /\ l.who = l.to

\* C23, as claimed: a transfer from an account to itself, of any amount,
\* returns Ok, changes no state and emits no event, on the engine, through
\* the facade and through the transfer dispatchables
SelfTransferNoOp ==
    [][IsSelfTransfer(last') => (last'.res = "Ok" /\ Ledger' = AtCall)]_vars

\* the Transferred event a transfer to oneself leaves: none on the engine and
\* none for a zero amount through the facade; otherwise the facade's event, or
\* the tokens module's from its own dispatchables
SelfTransferEvents(l) ==
    CASE l.op = "transfer" -> <<>>
      [] l.op = "currencies_transfer" ->
             IF l.amount = 0 THEN <<>>
             ELSE <<CurrenciesEvent("Transferred", l.cid, l.who, l.who, l.amount)>>
      [] l.op = "transfer_native_currency" ->
             <<CurrenciesEvent("Transferred", NativeCurrencyId, l.who, l.who, l.amount)>>
      [] l.op \in {"tokens_transfer", "transfer_all"} ->
             <<TokensTransferred(l.cid, l.who, l.who, l.amount)>>

\* C23, amended: such a transfer returns Ok and changes no balance, lock or
\* issuance, whatever the amount; the engine emits nothing, while the facade
\* (for a non-zero amount) and the dispatchables emit one Transferred event
SelfTransferKeepsState ==
    [][IsSelfTransfer(last') =>
          /\ last'.res = "Ok"
          /\ Ledger' = [AtCall EXCEPT !.events = SelfTransferEvents(last')]]_vars

\* a facade transfer of an engine currency from an account to itself, of more
\* than its free balance, that returned Ok and left a Transferred event
SelfTransferKeepsStateWitness ==
    /\ IsSelfTransfer(last) /\ last.op = "currencies_transfer"
    /\ last.cid # NativeCurrencyId
    /\ last.amount > Accounts[last.cid][last.who].free
    /\ last.res = "Ok" /\ Len(events) = 1

\* a call with a zero amount; transfer_all's amount is the caller's free balance
IsZeroInput(l) == l.op # "none" /\ l.amount = 0

\* C24, as claimed: every operation called with a zero amount succeeds,
\* changes nothing and emits no event
ZeroInputNoOp ==
    [][IsZeroInput(last') => (last'.res = "Ok" /\ Ledger' = AtCall)]_vars

\* the event a zero-amount call leaves: none, except for the operations that
\* have no early return of their own before deposit_event
ZeroInputEvents(l) ==
    CASE l.op = "currencies_update_balance" ->
             <<CurrenciesEvent("BalanceUpdated", l.cid, l.who, l.who, 0)>>
      [] l.op = "transfer_native_currency" ->
             <<CurrenciesEvent("Transferred", NativeCurrencyId, l.who, l.to, 0)>>
      [] l.op \in {"tokens_transfer", "transfer_all"} ->
             <<TokensTransferred(l.cid, l.who, l.to, 0)>>
      [] OTHER -> <<>>

\* C24, amended: every operation called with a zero amount succeeds and
\* changes no balance, lock or issuance; the engine operations and the facade
\* transfer, deposit, withdraw and reserve emit no event, while facade
\* update_balance, transfer_native_currency, the tokens transfer dispatchable
\* and transfer_all on a zero free balance each emit one event with amount 0
ZeroInputKeepsState ==
    [][IsZeroInput(last') =>
          /\ last'.res = "Ok"
          /\ Ledger' = [AtCall EXCEPT !.events = ZeroInputEvents(last')]]_vars

\* a facade update_balance by 0 that returned Ok and left a BalanceUpdated event
ZeroInputKeepsStateWitness ==
    /\ IsZeroInput(last) /\ last.op = "currencies_update_balance"
    /\ last.res = "Ok"
    /\ events = <<CurrenciesEvent("BalanceUpdated", last.cid, last.who, last.who, 0)>>

FacadeOps ==
    {"currencies_transfer", "currencies_deposit", "currencies_withdraw",
     "currencies_update_balance", "currencies_slash", "currencies_set_lock",
     "currencies_extend_lock", "currencies_remove_lock", "currencies_reserve",
     "currencies_unreserve", "currencies_slash_reserved",
     "currencies_repatriate_reserved"} \cup FacadeQueries

\* the engine operation with the arguments of the facade call l, applied to the
\* ledger the call found
EngineCall(l) ==
    CASE l.op = "currencies_transfer" -> transfer(AtCall, l.cid, l.who, l.to, l.amount)
      [] l.op = "currencies_deposit" -> deposit(AtCall, l.cid, l.who, l.amount)
      [] l.op = "currencies_withdraw" -> withdraw(AtCall, l.cid, l.who, l.amount)
      [] l.op = "currencies_update_balance" ->
             update_balance(AtCall, l.cid, l.who, l.amount)
      [] l.op = "currencies_slash" -> slash(AtCall, l.cid, l.who, l.amount)
      [] l.op = "currencies_set_lock" ->
             Ok(set_lock(AtCall, l.id, l.cid, l.who, l.amount))
      [] l.op = "currencies_extend_lock" ->
             Ok(extend_lock(AtCall, l.id, l.cid, l.who, l.amount))
      [] l.op = "currencies_remove_lock" -> Ok(remove_lock(AtCall, l.id, l.cid, l.who))
      [] l.op = "currencies_reserve" -> reserve(AtCall, l.cid, l.who, l.amount)
      [] l.op = "currencies_unreserve" -> unreserve(AtCall, l.cid, l.who, l.amount)
      [] l.op = "currencies_slash_reserved" ->
             slash_reserved(AtCall, l.cid, l.who, l.amount)
      [] l.op = "currencies_repatriate_reserved" ->
             repatriate_reserved(AtCall, l.cid, l.who, l.to, l.amount, l.status)
      [] l.op = "currencies_total_issuance" -> Ret(AtCall, total_issuance(AtCall, l.cid))
      [] l.op = "currencies_total_balance" ->
             Ret(AtCall, total_balance(AtCall, l.cid, l.who))
      [] l.op = "currencies_free_balance" ->
             Ret(AtCall, free_balance(AtCall, l.cid, l.who))
      [] l.op = "currencies_reserved_balance" ->
             Ret(AtCall, reserved_balance(AtCall, l.cid, l.who))
      [] l.op = "currencies_ensure_can_withdraw" ->
             Err(AtCall, ensure_can_withdraw(AtCall, l.cid, l.who, l.amount))
      [] l.op = "currencies_can_slash" ->
             Ret(AtCall, Flag(can_slash(AtCall, l.cid, l.who, l.amount)))
      [] l.op = "currencies_can_reserve" ->
             Ret(AtCall, Flag(can_reserve(AtCall, l.cid, l.who, l.amount)))

\* the operation of the native provider with the arguments of the facade call l
NativeCall(l) ==
    CASE l.op = "currencies_transfer" -> adapter_transfer(AtCall, l.who, l.to, l.amount)
      [] l.op = "currencies_deposit" -> adapter_deposit(AtCall, l.who, l.amount)
      [] l.op = "currencies_withdraw" -> adapter_withdraw(AtCall, l.who, l.amount)
      [] l.op = "currencies_update_balance" ->
             adapter_update_balance(AtCall, l.who, l.amount)
      [] l.op = "currencies_slash" -> adapter_slash(AtCall, l.who, l.amount)
      [] l.op = "currencies_set_lock" ->
             Ok(adapter_set_lock(AtCall, l.id, l.who, l.amount))
      [] l.op = "currencies_extend_lock" ->
             Ok(adapter_extend_lock(AtCall, l.id, l.who, l.amount))
      [] l.op = "currencies_remove_lock" -> Ok(adapter_remove_lock(AtCall, l.id, l.who))
      [] l.op = "currencies_reserve" -> adapter_reserve(AtCall, l.who, l.amount)
      [] l.op = "currencies_unreserve" -> adapter_unreserve(AtCall, l.who, l.amount)
      [] l.op = "currencies_slash_reserved" ->
             adapter_slash_reserved(AtCall, l.who, l.amount)
      [] l.op = "currencies_repatriate_reserved" ->
             adapter_repatriate_reserved(AtCall, l.who, l.to, l.amount, l.status)
      [] l.op = "currencies_total_issuance" -> Ret(AtCall, adapter_total_issuance(AtCall))
      [] l.op = "currencies_total_balance" ->
             Ret(AtCall, adapter_total_balance(AtCall, l.who))
      [] l.op = "currencies_free_balance" ->
             Ret(AtCall, adapter_free_balance(AtCall, l.who))
      [] l.op = "currencies_reserved_balance" ->
             Ret(AtCall, adapter_reserved_balance(AtCall, l.who))
      [] l.op = "currencies_ensure_can_withdraw" ->
             Err(AtCall, adapter_ensure_can_withdraw(AtCall, l.who, l.amount))
      [] l.op = "currencies_can_slash" ->
             Ret(AtCall, Flag(adapter_can_slash(AtCall, l.who, l.amount)))
      [] l.op = "currencies_can_reserve" ->
             Ret(AtCall, Flag(adapter_can_reserve(AtCall, l.who, l.amount)))

\* C25: a facade operation on the native currency is the native provider's
\* operation and leaves the engine's accounts, locks and issuance as they were;
\* on any other currency it is the engine's operation with the same arguments:
\* the native provider is untouched, and the result, the returned value and the
\* engine state are those of the direct engine call
FacadeRouting ==
    [][last'.op \in FacadeOps =>
          IF last'.cid = NativeCurrencyId
          THEN /\ Accounts' = Accounts /\ Locks' = Locks /\ TotalIssuance' = TotalIssuance
               /\ dust' = <<>>
               /\ last'.res = NativeCall(last').res /\ last'.ret = NativeCall(last').ret
               /\ native' = NativeCall(last').s.native
          ELSE /\ native' = native
               /\ last'.res = EngineCall(last').res /\ last'.ret = EngineCall(last').ret
               /\ Accounts' = EngineCall(last').s.Accounts
               /\ Locks' = EngineCall(last').s.Locks
               /\ TotalIssuance' = EngineCall(last').s.TotalIssuance
               /\ refs' = EngineCall(last').s.refs
               /\ dust' = EngineCall(last').s.dust]_vars

\* a facade reserve of the native currency that moved 3 into the native
\* provider's reserved balance while the engine held an issuance of X and no
\* reserved balance for the account
FacadeRoutingWitness ==
    /\ last.op = "currencies_reserve" /\ last.cid = NativeCurrencyId
    /\ last.res = "Ok" /\ last.amount = 3
    /\ native[last.who].reserved = 3
    /\ TotalIssuance["X"] = 3 /\ Accounts["X"][last.who].reserved = 0

\* C26: engine update_balance(cid, who, x) returns Ok without a change for
\* x = 0, AmountIntoBalanceFailed without a change when |x| is not a Balance,
\* and otherwise has the result and the ledger of deposit(cid, who, |x|) for
\* x > 0 and of withdraw(cid, who, |x|) for x < 0
UpdateBalanceContract ==
    [][last'.op = "update_balance" =>
          LET x == last'.amount
              d == deposit(AtCall, last'.cid, last'.who, abs(x))
              w == withdraw(AtCall, last'.cid, last'.who, abs(x))
          IN IF x = 0 THEN last'.res = "Ok" /\ Ledger' = AtCall
             ELSE IF abs(x) \notin Balance
             THEN last'.res = "AmountIntoBalanceFailed" /\ Ledger' = AtCall
             ELSE IF x > 0 THEN last'.res = d.res /\ Ledger' = d.s
             ELSE last'.res = w.res /\ Ledger' = w.s]_vars

\* an update_balance by -3 that withdrew from an account and sent the remainder
\* of 1 to the dust sink
UpdateBalanceContractWitness ==
    /\ last.op = "update_balance" /\ last.amount = -3 /\ last.res = "Ok"
    /\ Accounts[last.cid][last.who].free = 0
    /\ dust = <<1>>

\* transfer_all has the result and the ledger of the engine transfer of the
\* caller's free balance, with the Transferred event on success; when it
\* succeeds between two accounts the source's free balance is 0, the
\* destination's has grown by it and the source's reserved balance is untouched
TransferAllAsTransfer ==
    last'.op = "transfer_all" =>
        LET cid == last'.cid
            from == last'.who
            dest == last'.to
            balance == Accounts[cid][from].free
            t == transfer(AtCall, cid, from, dest, balance)
        IN /\ last'.res = t.res
           /\ Ledger' = IF t.res = "Ok"
                        THEN deposit_event(t.s, TokensTransferred(cid, from, dest, balance))
                        ELSE AtCall
           /\ (last'.res = "Ok" /\ from # dest) =>
                  /\ Accounts'[cid][from].free = 0
                  /\ Accounts'[cid][dest].free = Accounts[cid][dest].free + balance
                  /\ Accounts'[cid][from].reserved = Accounts[cid][from].reserved

\* C27, as claimed: transfer_all behaves as the transfer of the free balance,
\* and fails with LiquidityRestrictions, changing nothing, whenever the caller
\* has free > 0 and frozen > 0
TransferAllContract ==
    [][/\ TransferAllAsTransfer
       /\ (/\ last'.op = "transfer_all"
           /\ Accounts[last'.cid][last'.who].free > 0
           /\ Accounts[last'.cid][last'.who].frozen > 0) =>
              last'.res = "LiquidityRestrictions" /\ Ledger' = AtCall]_vars

\* C27, amended: the failure with LiquidityRestrictions is that of a caller
\* with free > 0 and frozen > 0 who names another account; naming itself, the
\* call returns Ok and changes no balance
TransferAllBetweenAccounts ==
    [][/\ TransferAllAsTransfer
       /\ (/\ last'.op = "transfer_all"
           /\ Accounts[last'.cid][last'.who].free > 0
           /\ Accounts[last'.cid][last'.who].frozen > 0) =>
              IF last'.who # last'.to
              THEN last'.res = "LiquidityRestrictions" /\ Ledger' = AtCall
              ELSE /\ last'.res = "Ok"
                   /\ Accounts' = Accounts /\ TotalIssuance' = TotalIssuance
                   /\ Locks' = Locks]_vars

\* a transfer_all between two accounts that left the source with no free
\* balance and a reserved balance below the existential deposit
TransferAllBetweenAccountsWitness ==
    /\ last.op = "transfer_all" /\ last.res = "Ok" /\ last.who # last.to
    /\ last.amount > 0
    /\ Accounts[last.cid][last.who].free = 0
    /\ Accounts[last.cid][last.who].reserved > 0
    /\ Accounts[last.cid][last.who].reserved < ExistentialDeposit

\* C28, as claimed: after the genesis build has loaded any list of entries
\* whose sums do not overflow, lists that name an (account, currency) twice
\* included, the account of the last entry holds its configured balance as
\* free balance, every reserved and frozen balance is 0, and the total issuance
\* of each currency is the sum over all accounts of free + reserved
GenesisLoad ==
    last.op = "genesis" =>
        /\ Accounts[last.cid][last.who].free = last.amount
        /\ \A cid \in CurrencyId, a \in AccountId :
               Accounts[cid][a].reserved = 0 /\ Accounts[cid][a].frozen = 0
        /\ \A cid \in CurrencyId :
               TotalIssuance[cid] = SumBalances(Accounts[cid], AccountId)

\* C29 (I4): from a genesis with distinct (account, currency) entries no call
\* of the engine wraps an unchecked addition or subtraction on a balance or on
\* the total issuance, and free + reserved of every account stays within
\* Balance, so that total() never saturates
NoOverflow ==
    /\ wrapped = FALSE
    /\ \A cid \in CurrencyId, a \in AccountId :
           Accounts[cid][a].free + Accounts[cid][a].reserved <= MaxBalance

\* a transfer whose unchecked to.free + amount reached the largest Balance
NoOverflowWitness ==
    /\ last.op = "transfer" /\ last.res = "Ok" /\ last.who # last.to
    /\ last.amount > 0 /\ last.amount < MaxBalance
    /\ Accounts[last.cid][last.to].free = MaxBalance

IsAdapterUpdateBalance(l) ==
    l.op = "currencies_update_balance" /\ l.cid = NativeCurrencyId

\* C30: the adapter's update_balance(who, x), reached through the facade for
\* the native currency: when |x| is not a Balance it returns
\* AmountIntoBalanceFailed and the provider is untouched; for x > 0 the provider
\* is left as deposit_creating(who, |x|) leaves it and the result is Ok, also
\* when nothing was credited; for x <= 0 the result and the provider are those
\* of the provider's withdraw of |x|
AdapterUpdateBalance ==
    [][IsAdapterUpdateBalance(last') =>
          LET x == last'.amount
              w == pallet_withdraw(AtCall, last'.who, abs(x))
          IN /\ Accounts' = Accounts /\ Locks' = Locks /\ TotalIssuance' = TotalIssuance
             /\ IF abs(x) \notin Balance
                THEN last'.res = "AmountIntoBalanceFailed" /\ native' = native
                ELSE IF x > 0
                THEN /\ last'.res = "Ok"
                     /\ native' = pallet_deposit_creating(AtCall, last'.who, abs(x)).native
                ELSE last'.res = w.res /\ native' = w.s.native]_vars

\* an update_balance of the native currency by -3 that passed on the
\* provider's refusal to withdraw from an account that holds nothing
AdapterUpdateBalanceWitness ==
    /\ IsAdapterUpdateBalance(last) /\ last.amount = -3
    /\ last.res = "InsufficientBalance"
    /\ native[last.who].free = 0

RECURSIVE SumSeq(_)
SumSeq(q) == IF q = <<>> THEN 0 ELSE q[1] + SumSeq(Tail(q))

\* what the call l adds to the issuance on the ledger it found: the amount of
\* a deposit that is not refused as too small for an empty account
Minted(l) ==
    IF /\ l.op = "deposit" \/ (l.op = "update_balance" /\ l.amount > 0)
       /\ l.res = "Ok"
       /\ ~(Accounts[l.cid][l.who].free = 0 /\ abs(l.amount) < ExistentialDeposit)
    THEN abs(l.amount) ELSE 0

\* what the call l burns from the issuance apart from dust: the amount of a
\* withdraw, the part of the amount a slash or slash_reserved could take
Burned(l) ==
    IF l.res # "Ok" THEN 0
    ELSE IF l.op = "withdraw" \/ (l.op = "update_balance" /\ l.amount < 0)
    THEN abs(l.amount)
    ELSE IF l.op \in {"slash", "slash_reserved"} THEN l.amount - l.ret
    ELSE 0

\* C33: in every engine call each amount handed to the dust sink is below the
\* existential deposit and leaves an account of the call with a free balance
\* of 0, and the total issuance of the call's currency changes by exactly the
\* effective deposit, less the withdrawal or the slash burn, less the dust
\* handed over in the call; a withdraw of the whole free balance hands over 0
DustAccounting ==
    [][(last'.op # "none" /\ last'.cid \in CurrencyId) =>
          /\ \A i \in 1..Len(dust') : dust'[i] < ExistentialDeposit
          /\ dust' # <<>> =>
                 \E a \in {last'.who, last'.to} \cap AccountId :
                     Accounts'[last'.cid][a].free = 0
          /\ TotalIssuance'[last'.cid] =
                 TotalIssuance[last'.cid] + Minted(last') - Burned(last') - SumSeq(dust')
          /\ \A cid \in CurrencyId \ {last'.cid} :
                 TotalIssuance'[cid] = TotalIssuance[cid]
          /\ (/\ last'.op = "withdraw" /\ last'.res = "Ok" /\ last'.amount > 0
              /\ last'.amount = Accounts[last'.cid][last'.who].free) =>
                 dust' = <<0>>]_vars

\* a transfer that left 1 on the source, removed as dust, while the
\* destination kept what it received
DustAccountingWitness ==
    /\ last.op = "transfer" /\ last.res = "Ok"
    /\ dust = <<1>>
    /\ Accounts[last.cid][last.who].free = 0
    /\ Accounts[last.cid][last.to].free >= ExistentialDeposit

\* C34: from a genesis whose balances are each 0 or at least the existential
\* deposit, every free balance of every (currency, account) is 0 or at least
\* the existential deposit after any sequence of engine operations
FreeBalanceGap ==
    \A cid \in CurrencyId, a \in AccountId :
        Accounts[cid][a].free = 0 \/ Accounts[cid][a].free >= ExistentialDeposit

\* an unreserve that would have left a free balance of 1: the account's free
\* balance is 0 and the 1 went to the dust sink
FreeBalanceGapWitness ==
    /\ last.op = "unreserve" /\ last.ret = 0
    /\ dust = <<1>>
    /\ Accounts[last.cid][last.who].free = 0

\* C35: on the ledger a slash(cid, who, v) finds, can_slash(cid, who, v) is
\* true exactly when v = 0 or free >= v, and when it is true the slash returns
\* a leftover of 0 and leaves the reserved balance of who as it was
CanSlashAgreement ==
    [][last'.op = "slash" =>
          LET can == can_slash(AtCall, last'.cid, last'.who, last'.amount)
              old == Accounts[last'.cid][last'.who]
          IN /\ can <=> (last'.amount = 0 \/ old.free >= last'.amount)
             /\ can => /\ last'.ret = 0
                       /\ Accounts'[last'.cid][last'.who].reserved = old.reserved]_vars

\* a slash that can_slash allowed: it left free balance behind, returned 0 and
\* the account still holds its reserved balance
CanSlashAgreementWitness ==
    /\ last.op = "slash" /\ last.amount > 0 /\ last.ret = 0
    /\ Accounts[last.cid][last.who].free > 0
    /\ Accounts[last.cid][last.who].reserved > 0

\* the lock list stored for (cid, a) in the ledger s, and whether one is stored
LockEntry(s, cid, a) == <<contains_key(s, cid, a), locks(s, cid, a)>>

\* C36: an engine call on a currency leaves the issuance, the accounts and the
\* locks of every other currency as they were, and within its currency the
\* account data and the locks of every account that is not an argument of
\* the call
Isolation ==
    [][(last'.op # "none" /\ last'.cid \in CurrencyId) =>
          /\ \A c \in CurrencyId \ {last'.cid} :
                 /\ TotalIssuance'[c] = TotalIssuance[c]
                 /\ Accounts'[c] = Accounts[c]
                 /\ \A a \in AccountId : LockEntry(Ledger', c, a) = LockEntry(Ledger, c, a)
          /\ \A a \in AccountId \ {last'.who, last'.to} :
                 /\ Accounts'[last'.cid][a] = Accounts[last'.cid][a]
                 /\ LockEntry(Ledger', last'.cid, a) = LockEntry(Ledger, last'.cid, a)]_vars

\* a successful transfer of X from alice to bob while carol holds X, alice
\* holds Y and alice has a lock on Y
IsolationWitness ==
    /\ last.op = "transfer" /\ last.res = "Ok" /\ last.amount > 0 /\ last.cid = "X"
    /\ last.who = "alice" /\ last.to = "bob"
    /\ Accounts["X"]["carol"].free > 0
    /\ Accounts["Y"]["alice"].free > 0
    /\ contains_key(Ledger, "Y", "alice")

LockOps == {"set_lock", "extend_lock", "remove_lock"}

BalanceOps ==
    {"transfer", "deposit", "withdraw", "slash", "update_balance", "reserve",
     "unreserve", "slash_reserved", "repatriate_reserved"}

---------------------------------------------------------------------------
(* schedule-update *)

SchedulerCalls == {"schedule_dispatch", "cancel_deplayed_dispatch", "on_initialize"}

\* the dispatches stored under (block, id) when the call arrived
StoredAt(block, id) == {d \in scheduler.dispatches : d.block = block /\ d.id = id}

\* C31: schedule_dispatch for a block that is not after the current one
\* (At(0), At(now), After(0)) fails with InvalidDelayedDispatchTime and
\* succeeds otherwise; cancel_deplayed_dispatch of a (block, id) under which
\* nothing is stored fails with DispatchNotExisted, by a signed origin other
\* than the one that scheduled it (any signed origin when Root did) with
\* NoPermission, and succeeds for that origin and for Root; a rejected call
\* leaves the scheduler, the ledger and the event log as they were
RejectedCalls ==
    [][/\ last'.op = "schedule_dispatch" =>
              LET block == IF last'.status = "At" THEN last'.amount
                           ELSE scheduler.now + last'.amount
              IN last'.res = IF block > scheduler.now THEN "Ok"
                             ELSE "InvalidDelayedDispatchTime"
       /\ last'.op = "cancel_deplayed_dispatch" =>
              LET found == StoredAt(last'.amount, last'.id)
              IN /\ last'.res = IF found = {} THEN "DispatchNotExisted"
                                ELSE IF \E d \in found : last'.who \notin {Root, d.who}
                                THEN "NoPermission"
                                ELSE "Ok"
                 /\ last'.res = "Ok" =>
                        /\ scheduler'.dispatches = scheduler.dispatches \ found
                        /\ events' = <<ScheduleUpdateEvent("CancelDeplayedDispatch", 0,
                                                           last'.id, "-")>>
       /\ (last'.op \in SchedulerCalls /\ last'.res # "Ok") =>
              /\ scheduler' = scheduler
              /\ events' = <<>>
              /\ UNCHANGED <<Accounts, Locks, TotalIssuance, refs, native>>]_vars

\* a signed origin was refused the cancellation of a dispatch Root scheduled
RejectedCallsWitness ==
    /\ last.op = "cancel_deplayed_dispatch"
    /\ last.res = "NoPermission"
    /\ last.who # Root
    /\ \E d \in StoredAt(last.amount, last.id) : d.who = Root

\* the events of the call that is returning that report the dispatch of id
DispatchEvents(evs, id) ==
    {i \in DOMAIN evs : /\ evs[i].id = id
                        /\ evs[i].name \in {"ScheduleDispatchSuccess",
                                            "ScheduleDispatchFail"}}

\* every id handed out is stored for a block still to come, cancelled, or
\* dispatched once
ScheduleBook ==
    /\ \A d \in scheduler.dispatches :
           /\ d.id < scheduler.next_id
           /\ d.block > scheduler.now
           /\ d.block >= d.target
           /\ \A e \in scheduler.dispatches : e.id = d.id => e = d
    /\ \A id \in DispatchId :
           LET stored == \E d \in scheduler.dispatches : d.id = id
               cancelled == id \in scheduler.cancelled
               dispatched == scheduler.executed[id] = 1
           IN /\ scheduler.executed[id] <= 1
              /\ ~(stored /\ cancelled) /\ ~(stored /\ dispatched)
              /\ ~(cancelled /\ dispatched)
              /\ (stored \/ cancelled \/ dispatched) <=> id < scheduler.next_id

\* C32: ids are handed out 0, 1, 2, .. in the order of the successful
\* schedule_dispatch calls and After(n) stands for the current block + n; a
\* dispatch that is not cancelled is not dispatched by on_initialize of a
\* block before its target, is dispatched once, at its target block or, when
\* the weight of the block is spent, at a later one (it stays stored for the
\* next block), and its dispatch leaves exactly one event,
\* ScheduleDispatchSuccess(block, id) or ScheduleDispatchFail(id, error)
DispatchOrder ==
    /\ []ScheduleBook
    /\ [][/\ (last'.op = "schedule_dispatch" /\ last'.res = "Ok") =>
                 LET block == IF last'.status = "At" THEN last'.amount
                              ELSE scheduler.now + last'.amount
                     id == scheduler.next_id
                 IN /\ scheduler'.next_id = id + 1
                    /\ scheduler'.dispatches =
                           scheduler.dispatches \cup
                               {[block |-> block, id |-> id, who |-> last'.who,
                                 call |-> last'.to, target |-> block]}
                    /\ events' = <<ScheduleUpdateEvent("ScheduleDispatch", block, id, "-")>>
          /\ (last'.op \in SchedulerCalls /\ last'.op # "on_initialize") =>
                 /\ scheduler'.executed = scheduler.executed
                 /\ \A id \in DispatchId : DispatchEvents(events', id) = {}
          /\ last'.op = "on_initialize" =>
                 LET now == last'.amount
                     ran == {d \in scheduler.dispatches :
                                 scheduler'.executed[d.id] = scheduler.executed[d.id] + 1}
                 IN /\ now = scheduler.now + 1
                    /\ scheduler'.now = now
                    /\ Len(events') = Cardinality(ran)
                    /\ \A d \in ran :
                           /\ d.target <= now
                           /\ d.block = now
                           /\ \E i \in DOMAIN events' :
                                  /\ DispatchEvents(events', d.id) = {i}
                                  /\ events'[i] \in
                                         {ScheduleUpdateEvent("ScheduleDispatchSuccess",
                                                              now, d.id, "-"),
                                          ScheduleUpdateEvent("ScheduleDispatchFail",
                                                              0, d.id, "BadOrigin"),
                                          ScheduleUpdateEvent("ScheduleDispatchFail",
                                                              0, d.id, "Module")}
                    /\ \A d \in scheduler.dispatches \ ran :
                           /\ scheduler'.executed[d.id] = scheduler.executed[d.id]
                           /\ DispatchEvents(events', d.id) = {}
                           /\ IF d.block = now
                              THEN /\ weight_of(ran) + CallWeight(d.call)
                                          > MaxScheduleDispatchWeight
                                   /\ [d EXCEPT !.block = now + 1] \in scheduler'.dispatches
                              ELSE d \in scheduler'.dispatches]_vars

\* three dispatches stood for the block that began: two were dispatched and
\* the third was moved to the next block
DispatchOrderWitness ==
    /\ last.op = "on_initialize"
    /\ Len(events) = MaxScheduleDispatchWeight
    /\ \E d \in scheduler.dispatches :
           d.target = scheduler.now /\ d.block = scheduler.now + 1

====
